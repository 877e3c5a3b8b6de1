------------------------------ MODULE GitCaches ------------------------------
(***************************************************************************)
(* gitref: the two caches of one checkout.  The reference half holds the   *)
(* branch and the hash, asked for one after the other.  The counter half   *)
(* holds the diff against HEAD and the distance to the upstream; a probe   *)
(* takes a fingerprint, HEAD's commit and the stat of the index file, and  *)
(* the diff runs only when that is another or the counters have reached    *)
(* their greatest age.                                                     *)
(*                                                                         *)
(* The repository moves meanwhile, in the steps git takes.  A cache file   *)
(* is replaced in one step: see TtlCache.                                  *)
(***************************************************************************)
EXTENDS Naturals, FiniteSets

CONSTANTS
    Servers,      \* each with its refreshers
    Commits,      \* that HEAD may name; it may come back to one
    None,         \* no entry
    Blank,        \* what a git command that fails or times out leaves
    MaxAge,       \* _GIT_WORKTREE_MAX_AGE_SECONDS, in units of the probe TTL;
                  \* bound: greater ages, which are no fresher, count as it
    MaxEvents     \* bound: operations on the repository, commands and writes
                  \* that fail and servers that die, all together

ASSUME ConstantsAssumption ==
    /\ None # Blank
    /\ Commits # {} /\ Blank \notin Commits
    /\ Blank \notin [head : Commits, index : Nat]
    /\ MaxAge \in Nat \ {0} /\ MaxEvents \in Nat

VARIABLES
    half,       \* the cache a behaviour is about: the two share nothing
    repo,       \* what the commands read: a commit, and versions of the rest
    visits,     \* history: how often HEAD has come to each commit
    op,         \* a git operation under way: the parts it has still to move
    events,     \* so far
    ref,        \* the cache of the reference half: an entry or None
    counters,   \* the cache of the counter half: an entry or None
    ranRef,     \* of each server, its "git-ref" job
    ranTree     \* of each server, its "git-worktree" job

vars == <<half, repo, visits, op, events, ref, counters, ranRef, ranTree>>

\* `head` is the commit, `branch` the one that is checked out and what it tracks,
\* `files` what git tracks and has written of it and `edits` the user's work.
Parts == {"head", "branch", "index", "files", "edits"}

FirstCommit == CHOOSE c \in Commits : TRUE

\* What the commands say now, and the fingerprint.
Diff == [head |-> repo.head, files |-> repo.files, edits |-> repo.edits]
Lead == [head |-> repo.head, branch |-> repo.branch]
Fingerprint == [head |-> repo.head, index |-> repo.index]

Ages == 0..MaxAge

Idle == [step |-> "idle"]

TypeOK ==
    /\ half \in {"ref", "counters"}
    /\ DOMAIN repo = Parts /\ repo.head \in Commits
    /\ \A p \in Parts \ {"head"} : repo[p] \in 0..MaxEvents
    /\ visits \in [Commits -> 0..MaxEvents + 1] /\ visits[repo.head] > 0
    /\ events \in 0..MaxEvents
    /\ ref # None => DOMAIN ref = {"branch", "hash", "probed"}
    /\ counters # None => /\ DOMAIN counters = {"fingerprint", "diff", "lead", "computed", "probed"}
                          /\ counters.computed \in Ages /\ counters.probed \in {0, 1}
                          /\ counters.probed = 1 => counters.computed >= 1
    /\ \A s \in Servers : /\ ranRef[s].step \in {"idle", "hash", "write"}
                          /\ ranTree[s].step \in {"idle", "index", "read", "diff", "lead", "write"}

Init ==
    /\ half \in {"ref", "counters"}
    /\ repo = [p \in Parts |-> IF p = "head" THEN FirstCommit ELSE 0]
    /\ visits = [c \in Commits |-> IF c = FirstCommit THEN 1 ELSE 0]
    /\ op = {}
    /\ events = 0
    /\ ref = None /\ counters = None
    /\ ranRef = [s \in Servers |-> Idle]
    /\ ranTree = [s \in Servers |-> Idle]

-----------------------------------------------------------------------------
(* External: the repository, and time.                                     *)

Moved(parts, c) ==
    [p \in Parts |-> IF p \notin parts THEN repo[p] ELSE IF p = "head" THEN c ELSE repo[p] + 1]

Moves(parts) ==
    \E c \in Commits :
        /\ c # repo.head <=> "head" \in parts
        /\ repo' = Moved(parts, c)
        /\ visits' = IF "head" \in parts THEN [visits EXCEPT ![c] = @ + 1] ELSE visits

\* An edit, a fetch or another branch, and a soft reset leave the index alone;
\* `git add` writes the index, and may track another file; a commit moves HEAD
\* and the index, in either order; a checkout changes the files before those.
Begin ==
    /\ op = {} /\ events < MaxEvents
    /\ events' = events + 1
    /\ \/ \E part \in {"edits", "branch", "head"} : Moves({part}) /\ op' = {}
       \/ Moves({"index", "files"}) /\ op' = {}
       \/ Moves({"index"}) /\ op' = {"head"}
       \/ Moves({"head"}) /\ op' = {"index"}
       \/ Moves({"files"}) /\ op' = {"index", "head", "branch"}
    /\ UNCHANGED <<half, ref, counters, ranRef, ranTree>>

\* The index first, and then HEAD with its branch.
Proceed ==
    /\ op # {}
    /\ LET parts == IF "index" \in op THEN {"index"} ELSE op
       IN  Moves(parts) /\ op' = op \ parts
    /\ UNCHANGED <<half, events, ref, counters, ranRef, ranTree>>

Older(age, limit) == IF age < limit THEN age + 1 ELSE limit

OlderEntry(entry) ==
    IF entry = None THEN None
    ELSE [entry EXCEPT !.computed = Older(@, MaxAge), !.probed = 1]

\* The probe TTL passes.  A refresher that holds an entry to write back holds
\* its time stamps, and they age with the rest.
Tick ==
    /\ \/ ref # None /\ ref.probed = 0
       \/ counters # None /\ (counters.probed = 0 \/ counters.computed < MaxAge)
    /\ ref' = IF ref = None THEN None ELSE [ref EXCEPT !.probed = 1]
    /\ counters' = OlderEntry(counters)
    /\ ranTree' = [s \in Servers |->
          IF ranTree[s].step = "write" THEN [ranTree[s] EXCEPT !.entry = OlderEntry(@)] ELSE ranTree[s]]
    /\ UNCHANGED <<half, repo, visits, op, events, ranRef>>

\* A command fails, and leaves a blank, as long as events are left.
Outcomes(answer) == {<<answer, 0>>} \cup (IF events < MaxEvents THEN {<<Blank, 1>>} ELSE {})

-----------------------------------------------------------------------------
(* The reference half.                                                     *)

Stale(entry) == entry # None => entry.probed = 1

\* Mutant of ReadBranch: a stale entry is served and no refresh asked for.
ReadBranchOnce(s) ==
    /\ half = "ref" /\ ranRef[s].step = "idle" /\ ref = None
    /\ \E o \in Outcomes(repo.branch) :
          /\ ranRef' = [ranRef EXCEPT ![s] = [step |-> "hash", branch |-> o[1]]]
          /\ events' = events + o[2]
    /\ UNCHANGED <<half, repo, visits, op, ref, counters, ranTree>>

\* A render asks where it finds no fresh entry; refresh_git_ref_cache reads
\* the branch.
ReadBranch(s) ==
    /\ half = "ref" /\ ranRef[s].step = "idle" /\ Stale(ref)
    /\ \E o \in Outcomes(repo.branch) :
          /\ ranRef' = [ranRef EXCEPT ![s] = [step |-> "hash", branch |-> o[1]]]
          /\ events' = events + o[2]
    /\ UNCHANGED <<half, repo, visits, op, ref, counters, ranTree>>

ReadHash(s) ==
    /\ ranRef[s].step = "hash"
    /\ \E o \in Outcomes(repo.head) :
          /\ ranRef' = [ranRef EXCEPT ![s] = [step |-> "write", branch |-> @.branch, hash |-> o[1]]]
          /\ events' = events + o[2]
    /\ UNCHANGED <<half, repo, visits, op, ref, counters, ranTree>>

WriteRef(s) ==
    /\ ranRef[s].step = "write"
    /\ ref' = [branch |-> ranRef[s].branch, hash |-> ranRef[s].hash, probed |-> 0]
    /\ ranRef' = [ranRef EXCEPT ![s] = Idle]
    /\ UNCHANGED <<half, repo, visits, op, events, counters, ranTree>>

-----------------------------------------------------------------------------
(* The counter half: refresh_git_worktree_cache.                           *)

Goes(s, job) == ranTree' = [ranTree EXCEPT ![s] = job]

\* _worktree_fingerprint: rev-parse, then the stat of the index.
ReadHead(s) ==
    /\ half = "counters" /\ ranTree[s].step = "idle" /\ Stale(counters)
    /\ \E o \in Outcomes(repo.head) :
          /\ IF o[1] = Blank
             THEN Goes(s, [step |-> "read", fingerprint |-> Blank])
             ELSE Goes(s, [step |-> "index", head |-> o[1]])
          /\ events' = events + o[2]
    /\ UNCHANGED <<half, repo, visits, op, ref, counters, ranRef>>

StatIndex(s) ==
    /\ ranTree[s].step = "index"
    /\ Goes(s, [step |-> "read", fingerprint |-> [head |-> ranTree[s].head, index |-> repo.index]])
    /\ UNCHANGED <<half, repo, visits, op, events, ref, counters, ranRef>>

\* _worktree_cache_current
IsCurrent(entry, fingerprint) ==
    /\ entry # None
    /\ entry.fingerprint = fingerprint
    /\ entry.computed < MaxAge

\* Mutant of Renewed: the counters count as computed when they are probed.
RenewedWhole(entry) == [entry EXCEPT !.probed = 0, !.computed = 0]

\* The entry as it is, with the time stamp of the write.
Renewed(entry) == [entry EXCEPT !.probed = 0]

\* A current entry is written back as it was read.
ReadCounters(s) ==
    /\ ranTree[s].step = "read"
    /\ IF IsCurrent(counters, ranTree[s].fingerprint)
       THEN Goes(s, [step |-> "write", entry |-> counters])
       ELSE Goes(s, [step |-> "diff", fingerprint |-> ranTree[s].fingerprint])
    /\ UNCHANGED <<half, repo, visits, op, events, ref, counters, ranRef>>

RunDiff(s) ==
    /\ ranTree[s].step = "diff"
    /\ \E o \in Outcomes(Diff) :
          /\ Goes(s, [step |-> "lead", fingerprint |-> ranTree[s].fingerprint, diff |-> o[1]])
          /\ events' = events + o[2]
    /\ UNCHANGED <<half, repo, visits, op, ref, counters, ranRef>>

\* Mutant of Computed: the entry does not say when it was computed.
ComputedUnstamped(s, fingerprint, lead) ==
    [fingerprint |-> fingerprint, diff |-> ranTree[s].diff, lead |-> lead, probed |-> 0]

Computed(s, fingerprint, lead) ==
    [fingerprint |-> fingerprint, diff |-> ranTree[s].diff, lead |-> lead,
     computed |-> 0, probed |-> 0]

\* Mutant of CountLead: the fingerprint is that of after the diff.
CountLeadThenProbe(s) ==
    /\ ranTree[s].step = "lead"
    /\ Goes(s, [step |-> "write", entry |-> Computed(s, Fingerprint, Lead)])
    /\ UNCHANGED <<half, repo, visits, op, events, ref, counters, ranRef>>

CountLead(s) ==
    /\ ranTree[s].step = "lead"
    /\ \E o \in Outcomes(Lead) :
          /\ Goes(s, [step |-> "write", entry |-> Computed(s, ranTree[s].fingerprint, o[1])])
          /\ events' = events + o[2]
    /\ UNCHANGED <<half, repo, visits, op, ref, counters, ranRef>>

WriteCounters(s) ==
    /\ ranTree[s].step = "write"
    /\ counters' = Renewed(ranTree[s].entry)
    /\ Goes(s, Idle)
    /\ UNCHANGED <<half, repo, visits, op, events, ref, ranRef>>

-----------------------------------------------------------------------------

\* A job ends without having written: the write fails, or the server dies.
Abandon(s) ==
    /\ events < MaxEvents
    /\ events' = events + 1
    /\ \/ ranRef[s] # Idle /\ ranRef' = [ranRef EXCEPT ![s] = Idle] /\ UNCHANGED ranTree
       \/ ranTree[s] # Idle /\ Goes(s, Idle) /\ UNCHANGED ranRef
    /\ UNCHANGED <<half, repo, visits, op, ref, counters>>

RefStep(s) == ReadBranch(s) \/ ReadHash(s) \/ WriteRef(s)

TreeStep(s) ==
    ReadHead(s) \/ StatIndex(s) \/ ReadCounters(s) \/ RunDiff(s) \/ CountLead(s) \/ WriteCounters(s)

Next ==
    \/ Begin \/ Proceed \/ Tick
    \/ \E s \in Servers : RefStep(s) \/ TreeStep(s) \/ Abandon(s)

\* Time passes, sessions render, and a refresher runs to its end: every git
\* command has a time-out.
Fairness ==
    /\ WF_vars(Tick)
    /\ \A s \in Servers : WF_vars(RefStep(s)) /\ WF_vars(TreeStep(s))

Spec == Init /\ [][Next]_vars /\ Fairness

-----------------------------------------------------------------------------

\* Counters stored under the fingerprint the repository has now are those of the
\* files that git tracks and has checked out (the fingerprint is taken before
\* the diff, and git moves the index after the files), and of its HEAD unless
\* HEAD has left that commit and come back.  Nothing in a fingerprint shows
\* that, nor an edit, a fetch or another branch: those wait for the greatest age.
FingerprintVouches ==
    counters # None /\ counters.fingerprint = Fingerprint =>
        /\ counters.diff # Blank =>
              /\ "index" \notin op => counters.diff.files = repo.files
              /\ visits[repo.head] = 1 => counters.diff.head = repo.head
        /\ counters.lead # Blank /\ visits[repo.head] = 1 => counters.lead.head = repo.head

\* Once the repository rests the counters are right and stay right, after an
\* edit, a fetch, another branch or a HEAD that went and came back too: no probe
\* keeps an entry alive past its age, and neither a failed command nor the
\* refresher of another server makes it stay wrong.
CountersCatchUp ==
    half = "counters" => <>[](counters # None /\ counters.diff = Diff /\ counters.lead = Lead)

\* The same for the branch and the hash, which a checkout can part.
RefCatchesUp ==
    half = "ref" => <>[](ref # None /\ ref.branch = repo.branch /\ ref.hash = repo.head)
=============================================================================
