# A formal model of agent-statusline

agent-statusline draws the status line of coding agents.  A harness runs a thin
client for every render; the client sends one UDP datagram to a resident server
on the loopback interface and prints what comes back.  The server keeps running
totals of the sessions' transcripts, and four pool threads recompute everything
that is too slow for a render.

These modules model the parts where the difficulty is in the order of events:
processes that share two files, threads that share a queue, caches that several
servers rewrite, files, repositories and process tables that change while they are
read.  Four folds over a session's data are checked against what they are to
compute.  TLC checks the models on small instances; TLAPS proves the main safety
properties for every value of the constants.

## The system

| Component | State | Operations | Correct when |
|---|---|---|---|
| Client and spawn (`statusline_client.py`, `statusline_client_support.py`) | a snapshot of `server.json`; `server.spawn.lock` | render, version check, time-out, refused port, claim of the lock, second look, spawn, shutdown of a superseded server | one spawn at a time, none beside a healthy server, always a healthy one again |
| Server lifecycle (`server.py`, `server_socket.py`, `server_info.py`, `server_entry.py`) | socket, `server.json`, stop flags | import, bind, publish, clear the lock, answer, shut down, idle exit, close, crash | its `server.json` goes when it goes, a superseded server ends |
| `statusline-ctl server` (`statusline_ctl.py`, `server_control.py`) | the info it read | stop, restart, status | what it reports is so |
| Refresh pool (`server_jobs.py`) | queue, claims, counters, threads | start, submit, drain, stop | one job per key, no claim leaks, accepted jobs run |
| Session tables (`server_state.py`, `cost_walk.py`, `cost.py`) | per session: path, offsets, accumulator, seen ids | touch, walk, reset, drop | totals equal a walk from the start |
| Transcript summaries (`transcript_summaries.py`) | a table of signature and value | look up, refresh, store, evict, reset | a matching signature vouches, the table is bounded and comes up to date |
| TTL cache files (`ttlcache.py`) and the Fable quota (`fable_quota.py`) | one file per cache, temporary files | read, refresh, mark a failure, write | a render reads a whole entry, failures pass |
| Git caches (`gitref.py`) | two cache files per directory | probe, diff, write | counters belong to their fingerprint and catch up |
| Walker caches (`beacon.py`, `burnrate.py`, `pace*.py`, `walker.py`) | keyed cache files | read, change, rewrite | what an overlap loses comes back; a turn is charged once |
| Session count (`sessions.py`, `process_snapshot.py`) | count cache, debounce file | scan, exclude, count, debounce | sessions counted, helpers and orphans not, no flicker |
| Qwen quota (`qwen_quota.py`) | anchor preference, cache | walk, read the key, write, show | no call missed or counted twice, figures catch up with the anchor |
| Beacon anchors (`beacon_anchors.py`) | none | scan a transcript | the anchors are those of the lifecycle that is open |
| Renders (`server_render.py`, `render_*.py`, `kimi.py`, `qwen.py`, `agy.py`) | last-render files | format, record | the client never prints half a line |
| Preferences, nudge, installers | small JSON files | edit | no lost update, one hook of ours and all of theirs |
| Subprocess wrapper (`process_safe.py`) | child, reader threads | run with a deadline, kill the tree | never waits past the deadline |

How they interact.  A client reads `server.json`, compares its version with a
digest of the checkout and sends a datagram.  If the server is missing, dead or
superseded it takes the lock file and spawns another; the new server publishes
`server.json` and removes the lock.  Inside the server one thread receives and
renders.  It updates the session tables, looks summaries up in a table shared
with the pool, reads cache files, and asks the pool for whatever is stale, through
`request_refresh`.  The pool's threads write those tables and files.

What is hard: clients of several terminals start at once; any process may be
killed between two system calls; a datagram may be lost; the checkout may move
under a running server; the transcripts grow, and are sometimes rewritten, while
they are read; four threads of one process and threads of another server write
the same cache files.  PROJECT.json lists these hazards line by line.

## The modules

### SpawnProtocol

The clients, the servers and `statusline-ctl server stop` of one state directory.
Every access to a file and every datagram is an action.

* `infoFile` is `server.json`, `lockFile` is `server.spawn.lock` with its age as
  "fresh" or "stale", `checkout` is what `code_version()` would return now.
* Of a server: `server` is where it is in `serve()`, `bind()`, `serve_forever()` or
  `close()`; `loaded` the code it imported, `label` the version it published,
  `inbox` the datagrams in its socket.  A pid stands for its port as well, and is
  used again once nothing names it.
* Of a client: `client` is where it is in `main()` or `ensure_server()`, `snapshot`
  the `info` it decided on.
* `ReadInfo`, `Classify`, `SendRequest`, `TimeOut`, `PrintReply` are `main` and
  `_ask_server`; `RetireServer` to `ReleaseLock` are `ensure_server` and
  `claim_spawn_lock`; `Import` to `ClearSpawnLock` are `serve()` and `bind()`;
  `HandleRequest`, `HandleShutdown`, `IdleExit` the loop; `CloseReadsInfo`,
  `CloseRemovesInfo`, `CloseSocket` are `close()`.
* External: the loopback interface, which may lose a datagram and refuses one for
  a port nobody has; the death of processes; the moves of the checkout.

A lock can become stale under one of three regimes, the constant `Aging`: never,
only when its spawn came to nothing, or at any time.  The code relies on a spawn
taking less than the ten seconds of `_spawn_lock_stale_seconds`; the regime "never"
states that reliance, and "any" drops it.

### WorkerPool and SingleFlight

`SingleFlight` is what callers of the pool are promised: a table of jobs, at most
one per key, and none accepted after it is closed.  `WorkerPool` is
`server_jobs.WorkerPool` thread by thread: `submit` claims under the lock and puts
outside it, `_drain` takes, counts in, runs, counts out and gives the claim back, and
`stop` sets the flag and puts one sentinel per thread.  `ImplementsSingleFlight`
maps the one to the other: a job is accepted where its key is claimed, begins where
a worker counts itself in, and is finished where the claim is given back.

### SessionTables

`StateTables` and the fold.  Each of the reads of `walk_for` is an action, and the
transcripts change between them.  `FullWalk` is `cost.walk_transcript`, over the
lines the entry has read; the properties compare the two.  A line is a turn (with a
message id and a time) or a typed prompt.  A line still being written is in `torn`.
A turn costs one unit: the parent's share of the cost is its number of turns.
`ReadAppended` counts in lines where the code counts in bytes.

A rewritten transcript stays shorter than what the server had read until the server
looks again.  The code compares nothing but sizes, so no other rewrite can show.
The files of a session are fixed; a subagent's file that does not exist yet is an
empty one.

### SummaryCache

`summary_for` in its steps (stat, table, request), the refreshers in theirs (stat,
read, store), and the pool as SingleFlight promises it, used by `INSTANCE`.  The
version of a file stands for its `(size, mtime_ns)` and for what a summary of it
says; `whole` is a summary of all of it.  A read may fail.  The scan for beacons then
raises and the pool logs it (`JobFails`); a walk keeps the `OSError` to itself and
publishes what it has under the signature taken before (`ReadCutShort`).  `young` is an
entry below the minimum refresh interval.  The order in which the lock is taken stands
for the order of the `served_at` stamps.

### TtlCache

`write_ttl_cache` and `read_raw_cache` on names, inodes and handles, with
`refresh_fable_quota_cache` as the writer: the fetch, the merge of the failure
marker, open, write, rename, and an error or a death at any of them.  A refresh begins
where the file holds no entry or an expired one; `expired` stands for both TTLs, that of
an answer and the shorter one of a failure.  A render opens the file and reads it in two
steps.  Renaming over an open file succeeds, as on
POSIX.

### KeyedCache

The caches that keep several entries in one file: the spend of the trailing windows
and the hourly series (`burnrate.py`, `pace.py`), the bias factors (`beacon.py`), the
session counts (`sessions.py`).  `kind` says which of them a behaviour is about: the
windows shed the oldest entries above `MaxEntries`, and the session counts shed those
of more than a day ago (`DayPasses`, `Outdated`), are read *before* the computing and
cover all directories at once, the others after it and for one entry.  `ReadEntries`,
`Compute`, `Open` and `Write` are the steps of a refresher; opening the file for writing
empties it, and two writers that overlap may leave a mixture (`mixed`).  A reader takes
a file that does not parse for no entries.

### GitCaches

The two caches of `gitref.py` for one checkout.  `repo` holds what the commands read: the
commit of HEAD, and versions of the branch with what it tracks, of the index file, of
what git did to the files and of what the user did to them.  `Begin` and `Proceed` move
them in the order git does.  HEAD may come back to a commit (`visits` counts, for the
properties); the fingerprint is that commit and the index, so an edit, a fetch, another
branch at the same commit and a HEAD that went and came back leave it as it was.  The
stat of the index is taken to tell its writes apart.
`ReadHead`, `StatIndex`, `ReadCounters`, `RunDiff`, `CountLead` and `WriteCounters` are
`refresh_git_worktree_cache`; `ReadBranch`, `ReadHash` and `WriteRef` are
`refresh_git_ref_cache`.  A command may fail and leave a blank; `Abandon` is a write
that fails or the death of a server.  Ages count in units of the probe TTL; `MaxAge` bounds
them as well, for an entry that is older is no fresher.  A cache file is replaced in one step, which is TtlCache's business.

### QwenQuota

The estimate of a plan's usage from an anchor that the user sets and from records in
one file per month.  A refresh takes the anchor (`Begin`), reads the files of its span
one by one (`ReadFile`), reads the preference *again* for the key of its entry
(`ReadKey`) and writes (`Write`), while calls arrive, time passes and the anchor is
set and reset.  `Served`, `FiveHourUsed` and `WeekUsed` are what a render shows.  One
call per unit of time is enough to have calls on either side of every border.

### SessionScan

`_count_via_psutil` on a process table that moves.  A process has a name, a command
line of an agent or not, flags, a parent pid and the time of its birth; `Launch` and
`Exit` reuse pids.  The scan takes the names in one pass (`Enumerate`), looks at a
candidate (`Classify`), and reads the rows of it, its parent and its ancestors one by
one, keeping each (`RowOf`, which is `_LazySnapshot.get`).  `FetchSelf`, `FetchParent`
and `Walk` are `_is_excluded_by_tree`, with its comparison of births and its limit; of
an ancestor whose row says node, `Ask` reads the command line, by pid and as it is then.
`line`, `nodes`, `spawner` and `before` are histories that only the properties read.

### SessionDebounce, BeaconAnchors, PaceWalk, HookMerge

Pure algorithms, each with a definition of its result beside it:
`debounce_session_count` as a fold over observations; the scan of a transcript for
beacons; the two walks that charge the turns of a session and its subagents, for a
window (`Spend`) and by the hour (`Hourly`), each with the loop the code gives it; and
the merge of our hook entry into the hooks a user has, of which the nudge and the server
hook have a copy each.  An observation of the debounce is one step: two servers whose
observations overlap, and a save that fails, are left out (a torn file is not).
`Algorithms` builds every input, one element at a time: a state is an input, and the
properties are invariants of the inputs.  The bounds are constants of it.

### MC modules and proofs

`MCSpawnProtocol`, `MCWorkerPool`, `MCSessionTables`, `MCSummaryCache`, `MCTtlCache`,
`MCKeyedCache`, `MCGitCaches`, `MCQwenQuota`, `MCSessionScan` and `MCAlgorithms` give
the constants the values a configuration file cannot write.
`SpawnProtocolProofs`, `WorkerPoolProofs`, `SummaryCacheProofs`, `TtlCacheProofs`,
`GitCachesProofs`, `QwenQuotaProofs`, `SessionScanProofs` and `FoldProofs` hold the
theorems, the last one those about folds over data.
An operator marked "Mutant of X" is X with a plausible mistake; nothing uses it
unless X is replaced by it, to see that a property notices.

## The runs

| Run | Shows | Bounds |
|---|---|---|
| `spawn_safety` | types, `AtMostOneSpawn`, `NoPileUp`, `CleanExitUnpublishes` | 2 clients, 2 server pids, 1 move of the checkout, 1 fault, locks do not age; symmetry |
| `spawn_liveness` | `AlwaysRecovers`, `SupersededServerEnds` | 1 client, 2 pids, 1 move, 1 fault, locks of failed spawns age |
| `worker_pool` | types, `ClaimsAreExact`, `CountersAreExact`, `AcceptedJobsRun`, the refinement | 2 threads, 2 callers, 3 keys |
| `session_tables` | types, `TotalsMatchFullWalk`, `ParentShareMatchesFullWalk`, `RewalksAreEarned` | 1 session, 2 transcripts, 1 subagent, 4 appends, 1 rewrite, 1 switch |
| `summary_cache` | types, `TableBounded`, `SignatureVouches`, `FreshAgainAndAgain` | 2 transcripts, room for 1 summary, 2 versions, 1 failure |
| `ttl_cache` | types, `RendersReadWholeEntries`, `CachesCurrentReading` | 2 servers with a refresher each, 2 readings, 1 failure, 1 death |
| `keyed_cache` | types, `LossesAreOverlaps`, `EntriesComeBack` | each kind of cache, 2 keys, a thread in each of 2 servers, room for 1 window, 1 change or day, 1 fault |
| `git_caches` | types, `FingerprintVouches`, `CountersCatchUp`, `RefCatchesUp` | 2 servers, greatest age 2 probes, 2 operations, failures or deaths, 2 commits; 1.6 million states |
| `qwen_quota` | `WeekIsExact`, `FiguresCatchUp` | 2 servers, windows and months of 2 units that do not begin together, 5 units of time, 2 calls, settings or faults; 2 million states |
| `session_scan` | types, `SessionsAreCounted`, `HelpersAreNotCounted`, `OrphansAreNotCounted` | 3 pids, 4 births; 4 kinds of process; ancestor limit 2; symmetry; 7.6 million states |
| `algorithms` | `DebounceMatchesEpisodes`, `AnchorsMatchLifecycle`, `EachTurnIsChargedOnce`, `HoursAreFilled`, `MergeIsClean` | inputs of up to 4 observations, 3 lines, 4 turns in 2 files, 2 hours, 4 hooks |
| `torn_cache` | that `RendersReadWholeEntries` fails when threads share a temporary file | as `ttl_cache`, both threads in one server |

Why the bounds are enough to be interesting.  Two clients are what a race for a lock
takes, and two pids let a server and its successor overlap; a used pid comes back.
One move of the checkout makes one version superseded; a second would only repeat
it.  Three keys on two threads make the queue hold a job while both threads are
busy.  Two transcripts in a table with room for one make every store evict.  Two
writers and four inodes are all that two temporary names, the cache's name and a
render's handle can refer to.  Two refreshers are what it takes to lose an update, and
room for one window makes every new window shed another.  Two events let a checkout
happen during a refresh that an edit or a failed command precedes.  A span of the
Qwen quota crosses a month in most behaviours, since months are as short as windows.
Three pids hold an agent, the shell between and the helper; the fourth birth takes
the pid of one that has gone.  Four observations are a stretch, a gap, a torn file or a
quiet moment, and the stretch after it.

Some bounds do hide something.  `spawn_liveness` has one client: rivalry for the lock
is left to `spawn_safety`.  The liveness runs have finitely many failures, so they
say that the system recovers once failures stop, not that it makes progress through
endless ones.  Of `session_scan`'s flags only the ones the properties need vary: every
process runs in the directory, without `-p` and readable.  The ancestor limit is two
where the code has fifteen: a helper under the shell of an agent just uses it up.

### Where the code does not do what it says

`torn_cache` checks a sentence of a docstring and finds it violated.  The other items
are shown by a line added to a configuration, given with each, or by a disjunct of a
property that does not hold without it.

* `torn_cache`: the temporary file of `write_ttl_cache` is named after the process.
  Two pool threads that write one cache share it, and a render can read an empty
  file.  Two such jobs exist when two sessions with different rate limits ask for
  the Fable quota, since the pool tells jobs apart by their argument.  The last-render
  file of `server_render.py` has one temporary name for all processes, so two servers
  that render one session are in the same case.
* `PROPERTY RemovesOnlyOwnInfo` in `SpawnSafety.cfg`: `Server.close` checks whose
  `server.json` it is and removes it in two steps.  A successor may publish in between,
  and loses its file.
* `Aging = "abandoned"` in `SpawnSafety.cfg` breaks `AtMostOneSpawn`: two clients that
  both judged a lock stale both remove it, the second one the fresh lock of the first;
  both spawn.
* `INVARIANT AnswersFromLabelledCode` in `SpawnSafety.cfg`: the version is computed at
  `bind()`, after the imports.  A checkout that moves in between labels old code with
  the new version.
* `INVARIANT StoppedMeansPortFree` in `SpawnSafety.cfg`: "server stopped" follows the
  disappearance of `server.json`, which `close()` arranges first, before it stops the
  pool and closes the socket.
* `INVARIANT EvictionsMatchFullWalk`, with `Lines <- MCTimedLines`, in
  `SessionTables.cfg`: `walk_for` folds subagents into the accumulator that holds the
  parent's last turn time, so the number of cache evictions depends on when the
  renders came.

* `INVARIANT SessionsAreNeverHidden` in `SessionScan.cfg`: the docstring of
  `_is_excluded_by_tree` says that what it cannot read "at worst counts a session that
  could have been excluded, and never hides a real one".  The row of a node ancestor
  comes from the snapshot, its command line from whoever has the pid when it is asked
  for (`cmdline_of`).  An agent that took the pid in between hides a session.

* A walk that is cut short leaves what it has under the signature of the file, and
  `summary_for` trusts it until the file changes.  The docstring of `_compute_inline`
  says that "an unreadable transcript is None"; of a walk it is a summary of zeros.
  `SignatureVouches` and `FreshAgainAndAgain` of SummaryCache except the walks
  (`IsCutShort`) and do not hold without that.
* `_pace_hourly_for_file` counts nothing of a file that it cannot read to its end, but the
  ids it marked stay marked: a whole copy of the same message in a later file is
  counted in no hour either.  The walk for a window charges both what it could read.
  `HoursAreFilled` says so (`FirstOfHour`).
* Nothing in a fingerprint of `gitref.py` shows an edit, a fetch, a new branch at the same
  commit or a HEAD that went and came back.  `FingerprintVouches` says what is left, and
  `CountersCatchUp` that the greatest age makes up for the rest.

Three things the properties step around, and say so:

* `_usage_file_paths` of `qwen_quota.py` walks the months of the two ends of the span,
  not "the distinct local months the span touches".  Under an anchor two months old the
  window of five hours reaches, on the first of a month, into a file that is not
  walked.  `FiguresCatchUp` leaves this out with `WindowIsWalked`; `WeekIsExact` is not
  touched, since no week is longer than a month.
* A refresh of the Qwen quota reads the preference again for the key, so counts taken
  against one anchor may be served under the next one until they expire.
  `WeekIsExact` speaks of the anchor an entry was counted from (a history), and
  `FiguresCatchUp` says that it passes.
* A process that psutil may not read has a row with birth 0, so no comparison of births
  can tell that its pid was reused.  `OrphansCorrect` assumes that every process may be
  read; of another user's processes the scan may have the names only.

## Fairness

* SpawnProtocol: a live process takes its next step.  Clients keep rendering, since
  the harness runs one for every refresh of its line.  A server that no client can
  reach any more sees its idle window end (`IDLE_EXIT_SECONDS`).  A lock left behind
  reaches its age.  Nothing is assumed of losses, deaths, moves of the checkout or a
  time-out that beats the answer, which are bounded or simply possible.
* WorkerPool: threads are scheduled, and a refresher returns; every subprocess and
  request in the package has a time-out.  No submit and no stop need ever come.
* SummaryCache: as for the pool; an entry ages; and, the only strong fairness, each
  session renders again and again although the renders of others keep the receive
  thread busy in between.
* TtlCache: refreshes keep being asked for, since entries reach their TTL and
  sessions render.
* KeyedCache: threads are scheduled, and, by strong fairness for each server and key,
  a job asked for again and again is taken: the queue gives each its turn.
  `EntriesComeBack` has the premise that writers stop overlapping for ever, which no
  fairness grants: under endless collisions an entry may never settle.
* GitCaches: time passes, sessions render, and a refresher runs to its end, since every
  git command has a time-out.  Nothing is assumed of the repository.
* QwenQuota: an entry expires and a refresh ends.  The clock and the user rest at
  their bounds; that is why the run may end, and why deadlock is not checked there.
* SessionScan and the algorithms: none; their properties are invariants.

## What is proved

For every number of clients, servers, moves of the checkout and faults
(`SpawnProtocolProofs`):

* `TypeCorrect`: types, in every regime of aging.
* `SpawnExclusion`: `AtMostOneSpawn`, assuming that no lock ages (`Aging = "never"`).
  The invariant says that every spawn under way is guarded by the one lock
  (`LockInv`); the property alone is not inductive, for it does not say that a lock is
  there.
* `CleanExit`: `CleanExitUnpublishes`, in every regime.  `PublishedInv` adds where the
  server named by `server.json` can be.
* `NoPileUpEver`: `NoPileUp`, assuming that no lock ages.  `JudgedInv` and `VersionInv`
  say that a client past its decision was right: the server it read of is gone for
  good, because versions only grow and a pid named by a snapshot is not used again.

For every number of threads, callers and keys (`WorkerPoolProofs`): `TypeCorrect`,
`CountersCorrect`, `ClaimsCorrect` and `Refinement`, that the pool implements
SingleFlight.  The invariant says which hand is full at which step (`HandsInv`), that no
key is in two places (`ApartInv`) and that the claims are the keys that are somewhere
(`ClaimedInv`).

For every number of transcripts, versions and failures (`SummaryCacheProofs`):
`SignatureCorrect`, whose invariant orders signature, value and file, in the table and
at each step of the refresher that is to write it, and gives only walks a summary of a
part; `CeilingCorrect`, that the table never
passes its ceiling, for any ceiling, from the fact that the order of eviction lists
every key once; and `TypeCorrect`.

For every number of servers, threads, readings, failures and deaths
(`TtlCacheProofs`): `WholeEntries`, which is `RendersReadWholeEntries` assuming that no
two threads of a process write the file (`OneWriterPerProcess`; `torn_cache` shows what
happens without it).  The invariant keeps the temporary files apart from each other,
from the cache file and from the render's handle (`FilesApart`), and has a writer find
its file as it left it (`WritersAlone`).  `TypeCorrect` needs no such assumption.

For every number of servers and commits and any greatest age (`GitCachesProofs`):
`FingerprintCorrect`, that counters under the present fingerprint are those of the files
git has checked out, outside its own update of the index, and those of HEAD where HEAD
has come to its commit but once.  The invariant relates what a refresher or the cache
holds to its fingerprint and the repository.  An index never goes back, so where that of
the fingerprint is the present one nothing has moved it in between; a commit that HEAD
came to once it has not left since.  The files have no version in a fingerprint; theirs
are right as long as the index has not moved and is not about to.
`TypeCorrect` counts the moves of each part of the repository against the events.

For every number of servers and any lengths of windows and months
(`QwenQuotaProofs`): `WeekCorrect`, that is `WeekIsExact`.  The property speaks of an
entry that is written; the invariant speaks of the walk that counts it.  As long as
less than a month has passed since the anchor, what is counted and what lies in the
files still to be read hold every call known when the refresh began: the months of the
two ends are then all the months there are.

For every number of pids, births and kinds of process (`SessionScanProofs`):
`OrphansCorrect`, that is `OrphansAreNotCounted`, assuming that psutil may read every
process (`AllReadable`).  The invariant relates each row the scan has kept to the
process it was read from: a row of a process that was there when the scan began tells
its parent, and the row under a parent's pid is either the parent's or of a process
born later, which the comparison of births finds out.

The same module proves the other two rules, under the same assumption:
`SessionsCorrect` for any limit of the walk, and `HelpersCorrect` for helpers at no more
removes than the limit.  The walk is at a pid and the ancestors are births; the
invariant ties the two.  From a helper, the pid is that of a living process between it
and the agent, and each pid passed is of a later birth, so that none is met twice
(`HelpersOf`).  From a session, whoever has the pid is an ancestor or younger than the
child it was named by (`Whoever`), by the table and by every row kept: the younger end
the walk, and an ancestor of a session is no agent.  `TreeInv` says what launching makes
of the histories, and `TypeCorrect` comes with it.

For every number of sessions, transcripts and subagents, any lines, and any number of
appends and rewrites (`FoldProofs`): `TypeCorrect`, `TotalsAreRight` and
`ParentShareIsRight`, that a fold resumed at an offset, render after render, ends with
what one walk over everything read would have given, and `RewalksStayEarned`, that a
session starts over no more often than its files were rewritten or its path changed.
It assumes that sessions and the subagents of one are finitely many, and that the
values for "no entry" and "nothing read" are no entry and no reading.

* The order in which lines were folded is lost in the totals.  So the invariant does not
  say that the fold is that of some walk; it says which message ids and prompts the fold
  has counted: those in the lines up to the offset, of the parent and of each subagent
  (`TotalsAreOfTheFiles`).  The full walk has the same ids, whatever its order, and equal
  sets have equal sizes.  `Counted` ties the number of turns to the set of ids, which is
  the code's own guard against counting a message twice.
* A render under way needs more: what it has read continues the file from the offset
  (`ReadsContinue`), and a file shorter than the offset is noticed before anything is
  folded (`NoneShrunk`: without a rewrite there is none).
* `RewalksAreOwed` pays for a rewalk before it happens: the rewalks done, and one for each
  session that has read more of a file than there now is (`Behind`), are no more than the
  rewrites, each counted once for every session, and the changes of path.
* What a fold computes is found by induction over the lines, which is within reach when
  it is put as a fact about a set of numbers (`NumbersByInduction`, from the
  well-foundedness of `<`) and the folds of the community modules are first shown to be
  the functions they are meant to be (`FoldFunctionExists`).

For inputs of any length (`FoldProofs` again, over `Algorithms`):

* `DebounceIsRight`, that is `DebounceMatchesEpisodes`, for any directories, counts and
  times, as long as the clock does not go back and a state is kept at least as long as
  the gap.  `EpisodesAreRight` says what the state file holds: for a directory, the
  longest stretch of "a second session" up to its last render; a directory without an
  episode has no such stretch, or has not been rendered for as long as a state is kept.
* `AnchorsAreRight`, that is `AnchorsMatchLifecycle`.  The scan is a fold over lines of a
  fold over the beacons of a line, and `Told` says of the outer one that the anchors after
  some lines are those of the lifecycle that is open among the beacons of these lines.
* `TurnsAreChargedOnce`, that is `EachTurnIsChargedOnce`, for any number of transcripts
  with any copies of messages in each other.  `Charged` says what a walk that has come
  to some line has seen and charged: the ids of the readable lines before it, and one
  charge for each, that of its first copy.  Readable is what is dated, lies in the
  window and comes before any failure to read the file.
* `HoursHoldTheirTurns`, that is `HoursAreFilled`, for any length of an hour.  `Spend` and
  `Hourly` are two loops, and the proof follows the second on its own: after some lines
  a bucket holds the turns of its hour that were first among them, and whether a line
  is marked does not depend on the hour it falls into.  That the bucket of index
  `(at - Earliest) \div HourLength` is the hour a time lies in is a fact about division
  (`WholeLengths`).
* `InstallsAreClean`, that is `MergeIsClean`, for any groups of hooks.  After an install
  our entry is between hooks of the user's, in a group between groups that hold only
  the user's (`OneAmong`), which leaves a second install nothing to do
  (`NothingToDo`).  What is the user's is a sequence made of the elements of others, and
  so can be taken group by group (`FlatMapThroughParts`).

For any number of servers, threads, faults and finitely many keys (`FoldProofs`, over
`KeyedCache`): `KeyedTypeCorrect`, that a file has one entry for each of its keys and
that of the windows no more than its limit; and `UpdatesLoseOnlyToOthers`, that is
`LossesAreOverlaps`: a refresher that had the file to itself loses no entry it did not
recompute, but for the oldest windows beyond the limit and the session counts that were
more than a day old when it began.  The property speaks of two moments, the opening and
the writing; what ties them is that a thread undisturbed since its read holds a copy of what is in
the file (`CopiesAreTheFile`), and that a file it has opened stays as empty as it left it
(`OpenFilesAreEmpty`).  Both are undone for every other thread by an opening and by a
writing, which is what `alone` records.  What an update keeps is then a matter of
sequences: the entries of other keys are those of the copy, and, where the oldest are
shed, an end of them (`OthersOfBoth`, `EndOf`).

The proofs use the named assumptions on the constants and, where said, that no lock
ages, that a process has one writer or that every process may be read.  TLC evaluates
the assumptions on the constants in the runs.

Only model-checked: everything with fairness (`AlwaysRecovers`,
`SupersededServerEnds`, `AcceptedJobsRun`, `FreshAgainAndAgain`,
`CachesCurrentReading`, `EntriesComeBack`, `CountersCatchUp`, `RefCatchesUp`,
`FiguresCatchUp`), which is out of the prover's reach.

## What is not modelled

* Formatting, prices, colours and the arithmetic of pace and burn rate: floating-point
  data without interleaving.  The renders of the harnesses and the text of the fallback
  line.
* `scripts/`: about seven tenths of the repository's Python are the verify scripts, the
  tests of the rest.  They were read for what they promise, and have no behaviour of
  their own to model.
* `process_safe.py`, which is vendored.  Its callers have a command that answers, fails
  or times out.
* The edits of TOML text in the installers, their prompts, the shell launchers and the
  nudge hook: each runs once and nothing waits for it.
* The pi extension, a separate renderer in TypeScript.
* Windows' rules for renaming open files, and a foreign program on a reused port.  A
  session resumed with a rewritten transcript that has already grown past its old size.

## Plan

Done: the spawn protocol, the pool, the session tables, the summaries, the TTL cache
with the Fable quota, the keyed caches, the git caches, the Qwen quota, the session
scan, the four algorithms, and the theorems above.  What is left, in this order:

1. `LastRender`: what the server records and the client falls back to, with its age;
   composed with SpawnProtocol's client.
2. The failure marker of `fable_quota.py` that undoes a fresh success: a property of
   TtlCache about the order of the readings a file holds.
3. `Prefs`: read-modify-write of the preferences by several `statusline-ctl` processes.
