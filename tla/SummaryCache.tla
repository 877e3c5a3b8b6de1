---------------------------- MODULE SummaryCache ----------------------------
(***************************************************************************)
(* transcript_summaries: whole-transcript summaries that renders take from *)
(* memory while the worker pool recomputes them.                           *)
(*                                                                         *)
(* The receive thread looks a summary up in three steps (os.stat, the      *)
(* table under its lock, the request to the pool); a refresher takes three *)
(* as well (os.stat, the read of the file, the table).  The transcripts    *)
(* grow in between.  The pool is the one SingleFlight promises.            *)
(*                                                                         *)
(* The version of a file stands for its signature, (size, mtime_ns), and   *)
(* for what a summary of it says; 0 is a file that is not there.           *)
(***************************************************************************)
EXTENDS Naturals, FiniteSets, SequencesExt

CONSTANTS
    Keys,         \* (kind, path) pairs
    Walks,        \* those of kind transcript-walk; the others are beacon-anchors
    NoKey,        \* no lookup under way
    NoEntry,      \* a key the table does not hold
    MaxEntries,   \* TRANSCRIPT_SUMMARY_MAXIMUM_ENTRIES
    MaxVersion,   \* bound: how often each transcript changes
    MaxFailures   \* bound: reads that fail

ASSUME ConstantsAssumption ==
    /\ NoKey \notin Keys
    /\ Walks \subseteq Keys
    /\ NoEntry \notin [signature : Nat, value : Nat, whole : BOOLEAN, young : BOOLEAN]
    /\ MaxEntries \in Nat
    /\ MaxVersion \in Nat
    /\ MaxFailures \in Nat

VARIABLES
    version,     \* the transcripts
    table,       \* _SUMMARIES
    recency,     \* its keys, the least recently served first
    lookup,      \* the lookup under way: its key, step and signature
    job,         \* the pool's job for each key
    open,        \* the pool takes jobs
    refresher,   \* where each running job is, and what it has taken
    failures     \* how many reads have failed

poolVars == <<job, open>>
vars == <<version, table, recency, lookup, poolVars, refresher, failures>>

Pool == INSTANCE SingleFlight

\* `whole` tells the summary of all of a file from that of a part of it.
Entry == [signature : 0..MaxVersion, value : 0..MaxVersion, whole : BOOLEAN, young : BOOLEAN]
NoLookup == [key |-> NoKey, step |-> "none", signature |-> 0]
NoRefresh == [step |-> "none", signature |-> 0, value |-> 0, whole |-> TRUE]

TypeOK ==
    /\ version \in [Keys -> 0..MaxVersion]
    /\ table \in [Keys -> Entry \cup {NoEntry}]
    /\ recency \in Seq(Keys)
    /\ lookup \in [key : Keys \cup {NoKey}, step : {"none", "table", "ask"},
                   signature : 0..MaxVersion]
    /\ job \in [Keys -> {"none", "waiting", "running"}]
    /\ open \in BOOLEAN
    /\ refresher \in [Keys -> [step : {"none", "stat", "read", "store"},
                               signature : 0..MaxVersion, value : 0..MaxVersion,
                               whole : BOOLEAN]]
    /\ failures \in 0..MaxFailures

Init ==
    /\ version = [k \in Keys |-> 0]
    /\ table = [k \in Keys |-> NoEntry]
    /\ recency = <<>>
    /\ lookup = NoLookup
    /\ refresher = [k \in Keys |-> NoRefresh]
    /\ failures = 0
    /\ Pool!Init

-----------------------------------------------------------------------------
(* The harness: a transcript appears, and then changes.                    *)

Change(k) ==
    /\ version[k] < MaxVersion
    /\ version' = [version EXCEPT ![k] = @ + 1]
    /\ UNCHANGED <<table, recency, lookup, poolVars, refresher, failures>>

-----------------------------------------------------------------------------
(* The receive thread: summary_for.                                        *)

\* k has just been served or stored: it is the last to go.
Freshened(k) ==
    LET At(i) == recency[i] = k
        others == IF \E i \in DOMAIN recency : At(i)
                  THEN RemoveAt(recency, CHOOSE i \in DOMAIN recency : At(i)) ELSE recency
    IN  Append(others, k)

\* A file that cannot be stat'd has no summary and asks for none.
LookupStat(k) ==
    /\ open
    /\ lookup = NoLookup
    /\ version[k] # 0
    /\ lookup' = [key |-> k, step |-> "table", signature |-> version[k]]
    /\ UNCHANGED <<version, table, recency, poolVars, refresher, failures>>

\* Mutant of LookupTable: an entry once stored is served for good.
LookupTableTrustsEntry ==
    /\ lookup.step = "table"
    /\ LET k == lookup.key
       IN  IF table[k] = NoEntry
           THEN /\ lookup' = [lookup EXCEPT !.step = "ask"]
                /\ UNCHANGED recency
           ELSE /\ recency' = Freshened(k)
                /\ lookup' = NoLookup
    /\ UNCHANGED <<version, table, poolVars, refresher, failures>>

\* Under the lock.  A missing summary is asked for; one of another signature
\* is, unless it is younger than the minimum refresh interval.
LookupTable ==
    /\ lookup.step = "table"
    /\ LET k == lookup.key
           e == table[k]
       IN  IF e = NoEntry
           THEN /\ lookup' = [lookup EXCEPT !.step = "ask"]
                /\ UNCHANGED recency
           ELSE /\ recency' = Freshened(k)
                /\ lookup' = IF e.signature # lookup.signature /\ ~e.young
                             THEN [lookup EXCEPT !.step = "ask"]
                             ELSE NoLookup
    /\ UNCHANGED <<version, table, poolVars, refresher, failures>>

\* request_refresh: the pool refuses a key it has, and any once it is closed.
Ask ==
    /\ lookup.step = "ask"
    /\ \/ Pool!Accept(lookup.key)
       \/ /\ ~open \/ job[lookup.key] # "none"
          /\ UNCHANGED poolVars
    /\ lookup' = NoLookup
    /\ UNCHANGED <<version, table, recency, refresher, failures>>

-----------------------------------------------------------------------------
(* The pool's threads: refresh_transcript_walk, refresh_beacon_anchors.    *)

BeginJob(k) ==
    /\ Pool!Begin(k)
    /\ refresher' = [refresher EXCEPT ![k].step = "stat"]
    /\ UNCHANGED <<version, table, recency, lookup, failures>>

\* The signature is taken before the file is read.
RefreshStat(k) ==
    /\ refresher[k].step = "stat"
    /\ refresher' = [refresher EXCEPT ![k].step = "read",
                                      ![k].signature = version[k]]
    /\ UNCHANGED <<version, table, recency, lookup, poolVars, failures>>

\* Mutant of RefreshRead: the signature is taken after the file is read.
RefreshReadThenStat(k) ==
    /\ refresher[k].step = "read"
    /\ refresher' = [refresher EXCEPT ![k].step = "store",
                                      ![k].value = refresher[k].signature,
                                      ![k].signature = version[k]]
    /\ UNCHANGED <<version, table, recency, lookup, poolVars, failures>>

RefreshRead(k) ==
    /\ refresher[k].step = "read"
    /\ refresher' = [refresher EXCEPT ![k].step = "store", ![k].value = version[k]]
    /\ UNCHANGED <<version, table, recency, lookup, poolVars, failures>>

\* _walk_one_transcript keeps an OSError to itself: the walk of a file that
\* cannot be opened or read to its end publishes what it has, which may be
\* nothing, as if it were the whole.
ReadCutShort(k) ==
    /\ k \in Walks
    /\ refresher[k].step = "read"
    /\ failures < MaxFailures
    /\ failures' = failures + 1
    /\ refresher' = [refresher EXCEPT ![k].step = "store", ![k].value = version[k],
                                      ![k].whole = FALSE]
    /\ UNCHANGED <<version, table, recency, lookup, poolVars>>

Stored(k) ==
    [table EXCEPT ![k] = [signature |-> refresher[k].signature,
                          value |-> refresher[k].value,
                          whole |-> refresher[k].whole,
                          young |-> TRUE]]

\* Mutant of StoreSummary: nothing is shed.
StoreSummaryKeepsAll(k) ==
    /\ refresher[k].step = "store"
    /\ table' = Stored(k)
    /\ recency' = Freshened(k)
    /\ refresher' = [refresher EXCEPT ![k] = NoRefresh]
    /\ Pool!Finish(k)
    /\ UNCHANGED <<version, lookup, failures>>

\* _store, under the lock, sheds the least recently served; then the job ends.
\* The order in which the lock was taken stands for that of the served_at times.
StoreSummary(k) ==
    /\ refresher[k].step = "store"
    /\ LET full == Len(Freshened(k)) > MaxEntries
           oldest == Head(Freshened(k))
       IN  IF full
           THEN /\ table' = [Stored(k) EXCEPT ![oldest] = NoEntry]
                /\ recency' = Tail(Freshened(k))
           ELSE /\ table' = Stored(k)
                /\ recency' = Freshened(k)
    /\ refresher' = [refresher EXCEPT ![k] = NoRefresh]
    /\ Pool!Finish(k)
    /\ UNCHANGED <<version, lookup, failures>>

\* Mutant of JobFails: an entry without a value is published.
JobFailsPublishes(k) ==
    /\ refresher[k].step = "read"
    /\ failures < MaxFailures
    /\ failures' = failures + 1
    /\ table' = [table EXCEPT ![k] = [signature |-> refresher[k].signature, young |-> TRUE]]
    /\ refresher' = [refresher EXCEPT ![k] = NoRefresh]
    /\ Pool!Finish(k)
    /\ UNCHANGED <<version, recency, lookup>>

\* The refresher raises and the pool logs it: beacons of a file that cannot be
\* opened or read, or a walk of one that is not text.
JobFails(k) ==
    /\ refresher[k].step = "read"
    /\ failures < MaxFailures
    /\ failures' = failures + 1
    /\ refresher' = [refresher EXCEPT ![k] = NoRefresh]
    /\ Pool!Finish(k)
    /\ UNCHANGED <<version, table, recency, lookup>>

RefresherStep(k) == BeginJob(k) \/ RefreshStat(k) \/ RefreshRead(k) \/ StoreSummary(k)

-----------------------------------------------------------------------------

\* The entry reaches the minimum refresh interval of five seconds.
EntryAges(k) ==
    /\ table[k] # NoEntry
    /\ table[k].young
    /\ table' = [table EXCEPT ![k].young = FALSE]
    /\ UNCHANGED <<version, recency, lookup, poolVars, refresher, failures>>

\* Server.close, on the receive thread: the pool stops, though a job may go on,
\* and the table is emptied.
ClosePool ==
    /\ lookup = NoLookup
    /\ open
    /\ Pool!Close
    /\ UNCHANGED <<version, table, recency, lookup, refresher, failures>>

ResetSummaries ==
    /\ ~open
    /\ table' = [k \in Keys |-> NoEntry]
    /\ recency' = <<>>
    /\ UNCHANGED <<version, lookup, poolVars, refresher, failures>>

Next ==
    \/ \E k \in Keys :
          \/ Change(k) \/ LookupStat(k) \/ RefresherStep(k)
          \/ ReadCutShort(k) \/ JobFails(k) \/ EntryAges(k)
    \/ LookupTable
    \/ Ask
    \/ ClosePool
    \/ ResetSummaries

Spec == Init /\ [][Next]_vars

\* A lookup that has begun goes on; the pool's threads are scheduled and their
\* jobs end; entries age; and each session keeps rendering, again and again
\* between the renders of the others.
Fairness ==
    /\ WF_vars(LookupTable)
    /\ WF_vars(Ask)
    /\ \A k \in Keys :
          /\ WF_vars(RefresherStep(k))
          /\ WF_vars(EntryAges(k))
          /\ SF_vars(LookupStat(k))

FairSpec == Spec /\ Fairness

-----------------------------------------------------------------------------
(* What the cache promises.                                                *)

\* The table never passes its ceiling, whatever the number of transcripts
\* the server ever serves (_store).
TableBounded == Cardinality({k \in Keys : table[k] # NoEntry}) <= MaxEntries

\* A summary trusted because its signature is the file's was taken of the file
\* as it is, although the file may change between any two steps of the refresher
\* that took both, and of all of it unless it is a walk, which swallows a read
\* that fails (refresh_transcript_walk and refresh_beacon_anchors).
SignatureVouches ==
    \A k \in Keys :
        (table[k] # NoEntry /\ table[k].signature = version[k])
          => /\ table[k].value = version[k]
             /\ table[k].whole \/ k \in Walks

IsFresh(k) == table[k] # NoEntry /\ table[k].value = version[k] /\ table[k].whole

\* What a walk that was cut short has left under the signature of the file:
\* nobody asks again before the file changes.
IsCutShort(k) ==
    /\ k \in Walks /\ table[k] # NoEntry
    /\ table[k].signature = version[k] /\ ~table[k].whole

\* While the server is up, each transcript that keeps being rendered has its
\* newest summary in the table again and again: no refused request, raised job
\* or shed entry keeps it stale for good.  Only a walk that was cut short does,
\* for as long as the file stays as it is (summary_for).
FreshAgainAndAgain ==
    \A k \in Keys : []<>(open /\ version[k] # 0 => IsFresh(k) \/ IsCutShort(k))
=============================================================================
