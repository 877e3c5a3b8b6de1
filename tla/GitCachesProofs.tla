--------------------------- MODULE GitCachesProofs ---------------------------
(***************************************************************************)
(* Proof of what a fingerprint vouches for, whatever the number of servers *)
(* and of the things that happen to the repository.                        *)
(*                                                                         *)
(* FingerprintVouches says nothing of what refreshers hold.  The invariant *)
(* relates their fingerprint, their diff and the repository: the index     *)
(* only moves on, and a commit that HEAD has come to once it has not left  *)
(* since.  The files are another matter, for no fingerprint holds them: a  *)
(* git operation that moves them moves the index with or after them.       *)
(***************************************************************************)
EXTENDS GitCaches, TLAPS

Prints == [head : Commits, index : Nat] \cup {Blank}

Diffs == [head : Commits, files : Nat, edits : Nat] \cup {Blank}

Leads == [head : Commits, branch : Nat] \cup {Blank}

Entries == [fingerprint : Prints, diff : Diffs, lead : Leads, computed : Nat, probed : {0, 1}]

\* Of a repository r with the operation o under way, and the visits v of its
\* HEAD.  A fingerprint is none from the future,
PrintBehind(r, v, print) ==
    /\ print \in Prints
    /\ print # Blank => v[print.head] > 0 /\ print.index <= r.index

\* HEAD has been at a commit since a fingerprint named it,
StayedAt(r, v, print) == print.head = r.head /\ v[r.head] = 1

\* a diff was taken after its fingerprint, and its files are those of the
\* repository as long as the index has not moved and is not about to,
DiffBetween(r, v, o, print, diff) ==
    /\ diff \in Diffs
    /\ print # Blank /\ diff # Blank =>
          /\ StayedAt(r, v, print) => diff.head = r.head
          /\ print.index = r.index /\ "index" \notin o => diff.files = r.files

\* and so was the distance to the upstream.
LeadBetween(r, v, print, lead) ==
    /\ lead \in Leads
    /\ print # Blank /\ lead # Blank => (StayedAt(r, v, print) => lead.head = r.head)

EntryOrdered(r, v, o, entry) ==
    /\ entry \in Entries
    /\ PrintBehind(r, v, entry.fingerprint)
    /\ DiffBetween(r, v, o, entry.fingerprint, entry.diff)
    /\ LeadBetween(r, v, entry.fingerprint, entry.lead)

JobOrdered(r, v, o, j) ==
    /\ j.step = "index" => j.head \in Commits /\ v[j.head] > 0
    /\ j.step \in {"read", "diff", "lead"} => PrintBehind(r, v, j.fingerprint)
    /\ j.step = "lead" => DiffBetween(r, v, o, j.fingerprint, j.diff)
    /\ j.step = "write" => /\ j = [step |-> "write", entry |-> j.entry]
                           /\ EntryOrdered(r, v, o, j.entry)

Repos == {r \in [Parts -> Commits \cup Nat] :
             r.head \in Commits /\ \A p \in Parts \ {"head"} : r[p] \in Nat}

Visits == [Commits -> Nat]

IInv ==
    /\ repo \in Repos /\ visits \in Visits /\ visits[repo.head] > 0
    /\ op \subseteq {"index", "head", "branch"}
    /\ counters # None => EntryOrdered(repo, visits, op, counters)
    /\ ranTree = [s \in Servers |-> ranTree[s]]
    /\ \A s \in Servers : JobOrdered(repo, visits, op, ranTree[s])

\* What git may do to the repository between r, v, o and q, w, p.
MovesOn(r, v, o, q, w, p) ==
    /\ q.index >= r.index
    /\ q.index = r.index /\ "index" \notin p => q.files = r.files /\ "index" \notin o
    /\ \A c \in Commits : w[c] >= v[c]
    /\ q.head # r.head => w[q.head] = v[q.head] + 1

-----------------------------------------------------------------------------

LEMMA FirstIsCommit == FirstCommit \in Commits
BY ConstantsAssumption DEF FirstCommit

LEMMA InitHolds == Init => IInv
<1> SUFFICES ASSUME Init
             PROVE  IInv
    OBVIOUS
<1>1. repo = [p \in Parts |-> IF p = "head" THEN FirstCommit ELSE 0] /\ "head" \in Parts
    BY DEF Init, Parts
<1>2. repo \in Repos /\ repo.head = FirstCommit
    BY <1>1, FirstIsCommit DEF Repos
<1>3. visits \in Visits /\ visits[FirstCommit] = 1
    BY FirstIsCommit DEF Init, Visits
<1>4. QED
    BY <1>2, <1>3 DEF Init, IInv, Idle, JobOrdered

\* What was in order stays so while the repository moves on.
LEMMA OrderLasts ==
    ASSUME NEW r \in Repos, NEW v \in Visits, NEW o, NEW q \in Repos, NEW w \in Visits, NEW p,
           MovesOn(r, v, o, q, w, p)
    PROVE  /\ \A e : EntryOrdered(r, v, o, e) => EntryOrdered(q, w, p, e)
           /\ \A j : JobOrdered(r, v, o, j) => JobOrdered(q, w, p, j)
<1>1. /\ r.head \in Commits /\ r.index \in Nat /\ r.files \in Nat
      /\ q.head \in Commits /\ q.index \in Nat /\ q.files \in Nat
    BY DEF Repos, Parts
<1>2. \A c \in Commits : v[c] \in Nat /\ w[c] \in Nat /\ w[c] >= v[c]
    BY DEF Visits, MovesOn
<1>3. ASSUME NEW print, PrintBehind(r, v, print)
      PROVE  PrintBehind(q, w, print)
    <2>1. CASE print = Blank
        BY <2>1 DEF PrintBehind, Prints
    <2>2. CASE print # Blank
        <3>1. print \in Prints /\ print.head \in Commits /\ print.index \in Nat
            BY <1>3, <2>2 DEF PrintBehind, Prints
        <3>2. v[print.head] > 0 /\ print.index <= r.index
            BY <1>3, <2>2 DEF PrintBehind
        <3>3. w[print.head] > 0
            BY <1>2, <3>1, <3>2
        <3>4. print.index <= q.index
            BY <1>1, <3>1, <3>2 DEF MovesOn
        <3>5. QED
            BY <3>1, <3>3, <3>4 DEF PrintBehind
    <2>3. QED
        BY <2>1, <2>2
<1>4. ASSUME NEW print, print # Blank, PrintBehind(r, v, print), StayedAt(q, w, print)
      PROVE  StayedAt(r, v, print) /\ q.head = r.head
    <2>1. print.head = q.head /\ w[q.head] = 1 /\ v[q.head] > 0
        BY <1>4 DEF PrintBehind, StayedAt
    <2>2. q.head = r.head
        BY <1>1, <1>2, <2>1 DEF MovesOn
    <2>3. v[r.head] = 1
        BY <1>1, <1>2, <2>1, <2>2
    <2>4. QED
        BY <2>1, <2>2, <2>3 DEF StayedAt
<1>5. ASSUME NEW print, NEW diff, PrintBehind(r, v, print), DiffBetween(r, v, o, print, diff)
      PROVE  DiffBetween(q, w, p, print, diff)
    <2>1. CASE print = Blank \/ diff = Blank
        BY <1>5, <2>1 DEF DiffBetween
    <2>2. CASE print # Blank /\ diff # Blank
        <3>1. StayedAt(q, w, print) => diff.head = q.head
            BY <1>4, <1>5, <2>2 DEF DiffBetween
        <3>2. ASSUME print.index = q.index, "index" \notin p
              PROVE  diff.files = q.files
            <4>1. print.index \in Nat /\ print.index <= r.index
                BY <1>5, <2>2 DEF PrintBehind, Prints
            <4>2. q.index = r.index
                BY <1>1, <3>2, <4>1 DEF MovesOn
            <4>3. QED
                BY <1>5, <2>2, <3>2, <4>2 DEF DiffBetween, MovesOn
        <3>3. QED
            BY <1>5, <3>1, <3>2 DEF DiffBetween
    <2>3. QED
        BY <2>1, <2>2
<1>6. ASSUME NEW print, NEW lead, PrintBehind(r, v, print), LeadBetween(r, v, print, lead)
      PROVE  LeadBetween(q, w, print, lead)
    BY <1>4, <1>6 DEF LeadBetween
<1>7. ASSUME NEW e, EntryOrdered(r, v, o, e)
      PROVE  EntryOrdered(q, w, p, e)
    BY <1>3, <1>5, <1>6, <1>7 DEF EntryOrdered
<1>8. ASSUME NEW j, JobOrdered(r, v, o, j)
      PROVE  JobOrdered(q, w, p, j)
    <2>1. j.step = "index" => j.head \in Commits /\ w[j.head] > 0
        BY <1>2, <1>8 DEF JobOrdered
    <2>2. j.step \in {"read", "diff", "lead"} => PrintBehind(q, w, j.fingerprint)
        BY <1>3, <1>8 DEF JobOrdered
    <2>3. j.step = "lead" => DiffBetween(q, w, p, j.fingerprint, j.diff)
        BY <1>5, <1>8 DEF JobOrdered
    <2>4. j.step = "write" => /\ j = [step |-> "write", entry |-> j.entry]
                              /\ EntryOrdered(q, w, p, j.entry)
        BY <1>7, <1>8 DEF JobOrdered
    <2>5. QED
        BY <2>1, <2>2, <2>3, <2>4 DEF JobOrdered
<1>9. QED
    BY <1>7, <1>8

\* What a move of some parts leaves of the repository.
LEMMA MovesLeave ==
    ASSUME repo \in Repos, visits \in Visits, NEW parts \in SUBSET Parts, Moves(parts)
    PROVE  /\ repo' \in Repos /\ visits' \in Visits
           /\ repo'.index = IF "index" \in parts THEN repo.index + 1 ELSE repo.index
           /\ "files" \notin parts => repo'.files = repo.files
           /\ \A c \in Commits : visits'[c] >= visits[c]
           /\ repo'.head # repo.head => visits'[repo'.head] = visits[repo'.head] + 1
           /\ visits[repo.head] > 0 => visits'[repo'.head] > 0
<1>1. PICK c \in Commits :
          /\ c # repo.head <=> "head" \in parts
          /\ repo' = Moved(parts, c)
          /\ visits' = IF "head" \in parts THEN [visits EXCEPT ![c] = @ + 1] ELSE visits
    BY DEF Moves
<1>2. repo.head \in Commits /\ \A p \in Parts \ {"head"} : repo[p] \in Nat
    BY DEF Repos
<1>3. \A p \in Parts : repo'[p] = IF p \notin parts THEN repo[p] ELSE IF p = "head" THEN c ELSE repo[p] + 1
    BY <1>1 DEF Moved
<1>4. {"head", "index", "files"} \subseteq Parts
    BY DEF Parts
<1>5. repo' \in Repos
    <2>1. repo' = [p \in Parts |-> repo'[p]]
        BY <1>1 DEF Moved
    <2>2. repo'["head"] \in Commits /\ \A p \in Parts \ {"head"} : repo'[p] \in Nat
        BY <1>2, <1>3, <1>4
    <2>3. QED
        BY <2>1, <2>2 DEF Repos
<1>6. repo'.head = c
    BY <1>1, <1>3, <1>4
<1>7. \A d \in Commits : visits[d] \in Nat
    BY DEF Visits
<1>8. CASE "head" \in parts
    <2>1. visits' = [visits EXCEPT ![c] = visits[c] + 1]
        BY <1>1, <1>8
    <2>2. \A d \in Commits : visits'[d] = IF d = c THEN visits[c] + 1 ELSE visits[d]
        BY <2>1 DEF Visits
    <2>3. visits' \in Visits
        BY <1>7, <2>1 DEF Visits
    <2>4. QED
        BY <1>3, <1>4, <1>5, <1>6, <1>7, <2>2, <2>3
<1>9. CASE "head" \notin parts
    BY <1>1, <1>3, <1>4, <1>5, <1>6, <1>7, <1>9
<1>10. QED
    BY <1>8, <1>9

\* The repository moves, and nobody else does.
LEMMA RepositoryKeeps ==
    ASSUME IInv, Begin \/ Proceed
    PROVE  IInv'
<1>1. repo \in Repos /\ visits \in Visits /\ visits[repo.head] > 0 /\ repo.index \in Nat
    BY DEF IInv, Repos, Parts
<1>2. ASSUME NEW parts \in SUBSET Parts, Moves(parts),
             "files" \in parts /\ "index" \notin parts => "index" \in op',
             "index" \in op => "index" \in parts,
             op' \subseteq {"index", "head", "branch"}
      PROVE  IInv'
    <2>1. repo' \in Repos /\ visits' \in Visits /\ visits'[repo'.head] > 0
        BY <1>1, <1>2, MovesLeave
    <2>2. /\ repo'.index = IF "index" \in parts THEN repo.index + 1 ELSE repo.index
          /\ "files" \notin parts => repo'.files = repo.files
          /\ \A c \in Commits : visits'[c] >= visits[c]
          /\ repo'.head # repo.head => visits'[repo'.head] = visits[repo'.head] + 1
        BY <1>1, <1>2, MovesLeave
    <2>3. MovesOn(repo, visits, op, repo', visits', op')
        BY <1>1, <1>2, <2>2 DEF MovesOn
    <2>4. UNCHANGED <<counters, ranTree>>
        BY DEF Begin, Proceed
    <2>5. counters # None => EntryOrdered(repo', visits', op', counters)
        BY <1>1, <2>1, <2>3, OrderLasts DEF IInv
    <2>6. \A s \in Servers : JobOrdered(repo', visits', op', ranTree[s])
        BY <1>1, <2>1, <2>3, OrderLasts DEF IInv
    <2>7. QED
        BY <1>2, <2>1, <2>4, <2>5, <2>6 DEF IInv
<1>3. CASE Begin
    <2>1. PICK parts \in SUBSET Parts :
              /\ Moves(parts)
              /\ "files" \in parts /\ "index" \notin parts => "index" \in op'
              /\ op' \subseteq {"index", "head", "branch"}
        BY <1>3 DEF Begin, Parts
    <2>2. op = {}
        BY <1>3 DEF Begin
    <2>3. QED
        BY <1>2, <2>1, <2>2
<1>4. CASE Proceed
    <2> DEFINE parts == IF "index" \in op THEN {"index"} ELSE op
    <2>1. op \subseteq {"index", "head", "branch"}
        BY DEF IInv
    <2>2. /\ Moves(parts) /\ parts \in SUBSET Parts /\ ("index" \in op => "index" \in parts)
          /\ "files" \notin parts /\ op' \subseteq {"index", "head", "branch"}
        BY <1>4, <2>1 DEF Proceed, Parts
    <2>3. QED
        BY <1>2, <2>1, <2>2
<1>5. QED
    BY <1>3, <1>4

\* An entry that has only aged is as good as before.
LEMMA AgedOrdered ==
    ASSUME NEW r, NEW v, NEW o, NEW e, EntryOrdered(r, v, o, e)
    PROVE  /\ e # None => EntryOrdered(r, v, o, OlderEntry(e))
           /\ EntryOrdered(r, v, o, Renewed(e))
<1>1. e \in Entries
    BY DEF EntryOrdered
<1>2. Older(e.computed, MaxAge) \in Nat
    BY <1>1, ConstantsAssumption DEF Older, Entries
<1>3. /\ e # None => OlderEntry(e) = [e EXCEPT !.computed = Older(e.computed, MaxAge), !.probed = 1]
      /\ Renewed(e) = [e EXCEPT !.probed = 0]
    BY <1>1 DEF OlderEntry, Renewed, Entries
<1>4. e # None => /\ OlderEntry(e) \in Entries
                  /\ OlderEntry(e).fingerprint = e.fingerprint
                  /\ OlderEntry(e).diff = e.diff /\ OlderEntry(e).lead = e.lead
    BY <1>1, <1>2, <1>3 DEF Entries
<1>5. /\ Renewed(e) \in Entries
      /\ Renewed(e).fingerprint = e.fingerprint
      /\ Renewed(e).diff = e.diff /\ Renewed(e).lead = e.lead
    BY <1>1, <1>3 DEF Entries
<1>6. QED
    BY <1>4, <1>5 DEF EntryOrdered

LEMMA TickKeeps ==
    ASSUME IInv, Tick
    PROVE  IInv'
<1>1. UNCHANGED <<repo, visits, op>>
    BY DEF Tick
<1>2. counters' = OlderEntry(counters)
    BY DEF Tick
<1>3. counters' # None => EntryOrdered(repo, visits, op, counters')
    BY <1>2, AgedOrdered DEF IInv, OlderEntry
<1>4. ASSUME NEW s \in Servers
      PROVE  JobOrdered(repo, visits, op, ranTree'[s])
    <2>1. JobOrdered(repo, visits, op, ranTree[s])
        BY DEF IInv
    <2>2. CASE ranTree[s].step # "write"
        BY <2>1, <2>2 DEF Tick
    <2>3. CASE ranTree[s].step = "write"
        <3>1. /\ ranTree[s] = [step |-> "write", entry |-> ranTree[s].entry]
              /\ EntryOrdered(repo, visits, op, ranTree[s].entry)
            BY <2>1, <2>3 DEF JobOrdered
        <3>2. ranTree'[s] = [ranTree[s] EXCEPT !.entry = OlderEntry(@)]
            BY <2>3 DEF Tick
        <3>3. ranTree'[s] = [step |-> "write", entry |-> OlderEntry(ranTree[s].entry)]
            BY <3>1, <3>2
        <3>4. ranTree[s].entry # None \/ OlderEntry(ranTree[s].entry) = ranTree[s].entry
            BY DEF OlderEntry
        <3>5. EntryOrdered(repo, visits, op, OlderEntry(ranTree[s].entry))
            BY <3>1, <3>4, AgedOrdered
        <3>6. QED
            BY <3>3, <3>5 DEF JobOrdered
    <2>4. QED
        BY <2>2, <2>3
<1>5. ranTree' = [s \in Servers |-> ranTree'[s]]
    BY DEF Tick
<1>6. QED
    BY <1>1, <1>3, <1>4, <1>5 DEF IInv

\* A job of one server moves to the next step, in order.
LEMMA GoesKeeps ==
    ASSUME IInv, NEW s \in Servers, NEW j, Goes(s, j), JobOrdered(repo, visits, op, j),
           UNCHANGED <<repo, visits, op, counters>>
    PROVE  IInv'
<1>1. \A t \in Servers : ranTree'[t] = IF t = s THEN j ELSE ranTree[t]
    BY DEF Goes, IInv
<1>2. ranTree' = [t \in Servers |-> ranTree'[t]]
    BY DEF Goes, IInv
<1>3. \A t \in Servers : JobOrdered(repo, visits, op, ranTree'[t])
    BY <1>1 DEF IInv
<1>4. QED
    BY <1>2, <1>3 DEF IInv

\* Each step of the counter half.
LEMMA TreeStepKeeps ==
    ASSUME IInv, NEW s \in Servers, TreeStep(s)
    PROVE  IInv'
<1>1. /\ repo \in Repos /\ repo.head \in Commits /\ visits[repo.head] > 0
      /\ repo.index \in Nat /\ repo.files \in Nat /\ repo.edits \in Nat /\ repo.branch \in Nat
      /\ JobOrdered(repo, visits, op, ranTree[s])
    BY DEF IInv, Repos, Parts
<1>2. UNCHANGED <<repo, visits, op>>
    BY DEF TreeStep, ReadHead, StatIndex, ReadCounters, RunDiff, CountLead, WriteCounters
<1>3. CASE ReadHead(s)
    <2>1. PICK o \in Outcomes(repo.head) :
              IF o[1] = Blank
              THEN Goes(s, [step |-> "read", fingerprint |-> Blank])
              ELSE Goes(s, [step |-> "index", head |-> o[1]])
        BY <1>3 DEF ReadHead
    <2>2. o[1] = repo.head \/ o[1] = Blank
        BY DEF Outcomes
    <2>3. JobOrdered(repo, visits, op, [step |-> "read", fingerprint |-> Blank])
        BY DEF JobOrdered, PrintBehind, Prints
    <2>4. JobOrdered(repo, visits, op, [step |-> "index", head |-> repo.head])
        BY <1>1 DEF JobOrdered
    <2>5. UNCHANGED counters
        BY <1>3 DEF ReadHead
    <2>6. CASE o[1] = Blank
        BY <1>2, <2>1, <2>3, <2>5, <2>6, GoesKeeps
    <2>7. CASE o[1] # Blank
        BY <1>2, <2>1, <2>2, <2>4, <2>5, <2>7, GoesKeeps
    <2>8. QED
        BY <2>6, <2>7
<1>4. CASE StatIndex(s)
    <2> DEFINE print == [head |-> ranTree[s].head, index |-> repo.index]
               j == [step |-> "read", fingerprint |-> print]
    <2>1. ranTree[s].head \in Commits /\ visits[ranTree[s].head] > 0
        BY <1>1, <1>4 DEF StatIndex, JobOrdered
    <2>2. PrintBehind(repo, visits, print)
        BY <1>1, <2>1 DEF PrintBehind, Prints
    <2>3. JobOrdered(repo, visits, op, j)
        BY <2>2 DEF JobOrdered
    <2>4. Goes(s, j) /\ UNCHANGED counters
        BY <1>4 DEF StatIndex
    <2>5. QED
        BY <1>2, <2>3, <2>4, GoesKeeps
<1>5. CASE ReadCounters(s)
    <2>1. PrintBehind(repo, visits, ranTree[s].fingerprint)
        BY <1>1, <1>5 DEF ReadCounters, JobOrdered
    <2>2. UNCHANGED counters
        BY <1>5 DEF ReadCounters
    <2>3. CASE IsCurrent(counters, ranTree[s].fingerprint)
        <3>1. EntryOrdered(repo, visits, op, counters)
            BY <2>3 DEF IInv, IsCurrent
        <3>2. JobOrdered(repo, visits, op, [step |-> "write", entry |-> counters])
            BY <3>1 DEF JobOrdered
        <3>3. Goes(s, [step |-> "write", entry |-> counters])
            BY <1>5, <2>3 DEF ReadCounters
        <3>4. QED
            BY <1>2, <2>2, <3>2, <3>3, GoesKeeps
    <2>4. CASE ~IsCurrent(counters, ranTree[s].fingerprint)
        <3>1. JobOrdered(repo, visits, op, [step |-> "diff", fingerprint |-> ranTree[s].fingerprint])
            BY <2>1 DEF JobOrdered
        <3>2. Goes(s, [step |-> "diff", fingerprint |-> ranTree[s].fingerprint])
            BY <1>5, <2>4 DEF ReadCounters
        <3>3. QED
            BY <1>2, <2>2, <3>1, <3>2, GoesKeeps
    <2>5. QED
        BY <2>3, <2>4
<1>6. CASE RunDiff(s)
    <2>1. PICK o \in Outcomes(Diff) :
              Goes(s, [step |-> "lead", fingerprint |-> ranTree[s].fingerprint, diff |-> o[1]])
        BY <1>6 DEF RunDiff
    <2>2. PrintBehind(repo, visits, ranTree[s].fingerprint)
        BY <1>1, <1>6 DEF RunDiff, JobOrdered
    <2>3. o[1] = Diff \/ o[1] = Blank
        BY DEF Outcomes
    <2>4. DiffBetween(repo, visits, op, ranTree[s].fingerprint, o[1])
        BY <1>1, <2>2, <2>3 DEF DiffBetween, StayedAt, Diffs, Diff
    <2>5. JobOrdered(repo, visits, op, [step |-> "lead", fingerprint |-> ranTree[s].fingerprint, diff |-> o[1]])
        BY <2>2, <2>4 DEF JobOrdered
    <2>6. UNCHANGED counters
        BY <1>6 DEF RunDiff
    <2>7. QED
        BY <1>2, <2>1, <2>5, <2>6, GoesKeeps
<1>7. CASE CountLead(s)
    <2> DEFINE print == ranTree[s].fingerprint
    <2>1. PICK o \in Outcomes(Lead) :
              Goes(s, [step |-> "write", entry |-> Computed(s, print, o[1])])
        BY <1>7 DEF CountLead
    <2>2. PrintBehind(repo, visits, print) /\ DiffBetween(repo, visits, op, print, ranTree[s].diff)
        BY <1>1, <1>7 DEF CountLead, JobOrdered
    <2>3. o[1] = Lead \/ o[1] = Blank
        BY DEF Outcomes
    <2>4. LeadBetween(repo, visits, print, o[1])
        BY <1>1, <2>2, <2>3 DEF LeadBetween, StayedAt, Leads, Lead
    <2>5. EntryOrdered(repo, visits, op, Computed(s, print, o[1]))
        BY <2>2, <2>4 DEF EntryOrdered, Computed, Entries, PrintBehind, DiffBetween, LeadBetween
    <2>6. JobOrdered(repo, visits, op, [step |-> "write", entry |-> Computed(s, print, o[1])])
        BY <2>5 DEF JobOrdered
    <2>7. UNCHANGED counters
        BY <1>7 DEF CountLead
    <2>8. QED
        BY <1>2, <2>1, <2>6, <2>7, GoesKeeps
<1>8. CASE WriteCounters(s)
    <2>1. EntryOrdered(repo, visits, op, counters')
        BY <1>1, <1>8, AgedOrdered DEF WriteCounters, JobOrdered
    <2>2. \A t \in Servers : ranTree'[t] = IF t = s THEN Idle ELSE ranTree[t]
        BY <1>8 DEF WriteCounters, Goes, IInv
    <2>3. ranTree' = [t \in Servers |-> ranTree'[t]]
        BY <1>8 DEF WriteCounters, Goes, IInv
    <2>4. \A t \in Servers : JobOrdered(repo, visits, op, ranTree'[t])
        BY <2>2 DEF IInv, JobOrdered, Idle
    <2>5. QED
        BY <1>1, <1>2, <2>1, <2>3, <2>4 DEF IInv
<1>9. QED
    BY <1>3, <1>4, <1>5, <1>6, <1>7, <1>8 DEF TreeStep

LEMMA AbandonKeeps ==
    ASSUME IInv, NEW s \in Servers, Abandon(s)
    PROVE  IInv'
<1>1. JobOrdered(repo, visits, op, Idle)
    BY DEF JobOrdered, Idle
<1>2. UNCHANGED <<repo, visits, op, counters>>
    BY DEF Abandon
<1>3. CASE Goes(s, Idle)
    BY <1>1, <1>2, <1>3, GoesKeeps
<1>4. CASE UNCHANGED ranTree
    BY <1>2, <1>4 DEF IInv
<1>5. QED
    BY <1>3, <1>4 DEF Abandon

LEMMA NextKeeps == IInv /\ [Next]_vars => IInv'
<1> SUFFICES ASSUME IInv, [Next]_vars
             PROVE  IInv'
    OBVIOUS
<1>1. CASE UNCHANGED vars
    BY <1>1 DEF vars, IInv
<1>2. CASE Begin \/ Proceed
    BY <1>2, RepositoryKeeps
<1>3. CASE Tick
    BY <1>3, TickKeeps
<1>4. ASSUME NEW s \in Servers, RefStep(s)
      PROVE  IInv'
    BY <1>4 DEF RefStep, ReadBranch, ReadHash, WriteRef, IInv
<1>5. ASSUME NEW s \in Servers, TreeStep(s)
      PROVE  IInv'
    BY <1>5, TreeStepKeeps
<1>6. ASSUME NEW s \in Servers, Abandon(s)
      PROVE  IInv'
    BY <1>6, AbandonKeeps
<1>7. QED
    BY <1>1, <1>2, <1>3, <1>4, <1>5, <1>6 DEF Next

\* The fingerprint of now is one of a commit that HEAD has not left.
LEMMA OrderVouches == IInv => FingerprintVouches
<1> SUFFICES ASSUME IInv, counters # None, counters.fingerprint = Fingerprint
             PROVE  /\ counters.diff # Blank =>
                          /\ "index" \notin op => counters.diff.files = repo.files
                          /\ visits[repo.head] = 1 => counters.diff.head = repo.head
                    /\ counters.lead # Blank /\ visits[repo.head] = 1 => counters.lead.head = repo.head
    BY DEF FingerprintVouches
<1>1. EntryOrdered(repo, visits, op, counters) /\ repo.head \in Commits /\ repo.index \in Nat
    BY DEF IInv, Repos, Parts
<1>2. Fingerprint # Blank
    BY <1>1, ConstantsAssumption DEF Fingerprint
<1>3. counters.fingerprint.head = repo.head /\ counters.fingerprint.index = repo.index
    BY DEF Fingerprint
<1>4. visits[repo.head] = 1 => StayedAt(repo, visits, counters.fingerprint)
    BY <1>3 DEF StayedAt
<1>5. counters.diff # Blank => /\ "index" \notin op => counters.diff.files = repo.files
                               /\ visits[repo.head] = 1 => counters.diff.head = repo.head
    BY <1>1, <1>2, <1>3, <1>4 DEF EntryOrdered, DiffBetween
<1>6. counters.lead # Blank /\ visits[repo.head] = 1 => counters.lead.head = repo.head
    BY <1>1, <1>2, <1>4 DEF EntryOrdered, LeadBetween
<1>7. QED
    BY <1>5, <1>6

\* Counters stored under the fingerprint of now are those of the files git has
\* checked out, and of HEAD where it has come to its commit but once, for any
\* number of servers, commits, events and ages: _worktree_fingerprint goes
\* before the diff in refresh_git_worktree_cache.
THEOREM FingerprintCorrect == Spec => []FingerprintVouches
<1>1. Init => IInv
    BY InitHolds
<1>2. IInv /\ [Next]_vars => IInv'
    BY NextKeeps
<1>3. IInv => FingerprintVouches
    BY OrderVouches
<1>4. QED
    BY <1>1, <1>2, <1>3, PTL DEF Spec

-----------------------------------------------------------------------------
(* Types.  A part of the repository has moved once for each event at most, *)
(* the one under way included, and so has HEAD.                            *)

Aged(entry) ==
    /\ entry \in Entries /\ entry.computed \in Ages
    /\ entry.probed = 1 => entry.computed >= 1

JobTyped(j) ==
    /\ j.step \in {"idle", "index", "read", "diff", "lead", "write"}
    /\ j.step = "write" => j = [step |-> "write", entry |-> j.entry] /\ Aged(j.entry)

\* No part, nor a visit of HEAD, is more than the events e allow with o to come.
Counted(r, v, o, e) ==
    /\ \A p \in Parts \ {"head"} : r[p] + (IF p \in o THEN 1 ELSE 0) <= e
    /\ \A c \in Commits : v[c] + (IF "head" \in o THEN 1 ELSE 0) <= e + 1

TypeInv ==
    /\ half \in {"ref", "counters"}
    /\ events \in 0..MaxEvents
    /\ repo \in Repos /\ visits \in Visits /\ visits[repo.head] > 0
    /\ op \subseteq {"index", "head", "branch"} /\ Counted(repo, visits, op, events)
    /\ ref # None => ref = [branch |-> ref.branch, hash |-> ref.hash, probed |-> ref.probed]
    /\ counters # None => Aged(counters)
    /\ ranRef = [s \in Servers |-> ranRef[s]]
    /\ \A s \in Servers : ranRef[s].step \in {"idle", "hash", "write"}
    /\ ranTree = [s \in Servers |-> ranTree[s]]
    /\ \A s \in Servers : JobTyped(ranTree[s])

LEMMA InitTyped == Init => TypeInv
<1> SUFFICES ASSUME Init
             PROVE  TypeInv
    OBVIOUS
<1>1. repo \in Repos /\ visits \in Visits /\ visits[repo.head] > 0
    BY InitHolds DEF IInv
<1>2. Counted(repo, visits, op, events)
    BY DEF Init, Counted
<1>3. QED
    BY <1>1, <1>2, ConstantsAssumption DEF Init, TypeInv, Idle, JobTyped

\* A move counts what it moves.
LEMMA MovesCount ==
    ASSUME repo \in Repos, visits \in Visits, NEW parts \in SUBSET Parts, Moves(parts),
           NEW o, NEW p, NEW e \in Nat, NEW f \in Nat, Counted(repo, visits, o, e),
           \/ f = e + 1 /\ o = {} /\ p \cap parts = {}
           \/ f = e /\ parts \subseteq o /\ p = o \ parts
    PROVE  Counted(repo', visits', p, f)
<1>1. PICK c \in Commits :
          /\ repo' = Moved(parts, c)
          /\ visits' = IF "head" \in parts THEN [visits EXCEPT ![c] = @ + 1] ELSE visits
    BY DEF Moves
<1>2. \A q \in Parts \ {"head"} :
          repo[q] \in Nat /\ repo'[q] = IF q \in parts THEN repo[q] + 1 ELSE repo[q]
    BY <1>1 DEF Moved, Repos
<1>3. \A d \in Commits : /\ visits[d] \in Nat
                         /\ \/ visits'[d] = visits[d]
                            \/ "head" \in parts /\ visits'[d] = visits[d] + 1
    BY <1>1 DEF Visits
<1>4. ASSUME NEW q \in Parts \ {"head"}
      PROVE  repo'[q] + (IF q \in p THEN 1 ELSE 0) <= f
    <2>1. repo[q] + (IF q \in o THEN 1 ELSE 0) <= e
        BY DEF Counted
    <2>2. QED
        BY <1>2, <2>1
<1>5. ASSUME NEW d \in Commits
      PROVE  visits'[d] + (IF "head" \in p THEN 1 ELSE 0) <= f + 1
    <2>1. visits[d] + (IF "head" \in o THEN 1 ELSE 0) <= e + 1
        BY DEF Counted
    <2>2. QED
        BY <1>3, <2>1
<1>6. QED
    BY <1>4, <1>5 DEF Counted

LEMMA RepositoryTyped ==
    ASSUME TypeInv, Begin \/ Proceed
    PROVE  TypeInv'
<1>1. /\ events \in Nat /\ MaxEvents \in Nat /\ events <= MaxEvents
      /\ repo \in Repos /\ visits \in Visits /\ visits[repo.head] > 0
      /\ op \subseteq {"index", "head", "branch"} /\ Counted(repo, visits, op, events)
    BY ConstantsAssumption DEF TypeInv
<1>2. PICK parts \in SUBSET Parts :
          /\ Moves(parts) /\ op' \subseteq {"index", "head", "branch"} /\ events' \in 0..MaxEvents
          /\ \/ events' = events + 1 /\ op = {} /\ op' \cap parts = {}
             \/ events' = events /\ parts \subseteq op /\ op' = op \ parts
    <2>1. CASE Begin
        BY <1>1, <2>1 DEF Begin, Parts
    <2>2. CASE Proceed
        BY <1>1, <2>2 DEF Proceed, Parts, TypeInv
    <2>3. QED
        BY <2>1, <2>2
<1>3. repo' \in Repos /\ visits' \in Visits /\ visits'[repo'.head] > 0
    BY <1>1, <1>2, MovesLeave
<1>4. Counted(repo', visits', op', events')
    <2>1. events' \in Nat
        BY <1>1, <1>2
    <2>2. QED
        BY <1>1, <1>2, <2>1, MovesCount
<1>5. UNCHANGED <<half, ref, counters, ranRef, ranTree>>
    BY DEF Begin, Proceed
<1>6. QED
    BY <1>2, <1>3, <1>4, <1>5 DEF TypeInv

LEMMA AgingTyped ==
    ASSUME NEW e, Aged(e)
    PROVE  /\ Aged(OlderEntry(e)) /\ Aged(Renewed(e))
<1>1. e \in Entries /\ e.computed \in 0..MaxAge /\ MaxAge \in Nat \ {0}
    BY ConstantsAssumption DEF Aged, Ages
<1>2. Older(e.computed, MaxAge) \in 1..MaxAge /\ Older(e.computed, MaxAge) \in Nat
    BY <1>1 DEF Older
<1>3. Aged(Renewed(e))
    <2>1. Renewed(e) = [e EXCEPT !.probed = 0]
        BY DEF Renewed
    <2>2. QED
        BY <1>1, <2>1 DEF Aged, Ages, Entries
<1>4. CASE e = None
    BY <1>3, <1>4 DEF OlderEntry
<1>5. CASE e # None
    <2>1. OlderEntry(e) = [e EXCEPT !.computed = Older(e.computed, MaxAge), !.probed = 1]
        BY <1>1, <1>5 DEF OlderEntry, Entries
    <2> DEFINE age == Older(e.computed, MaxAge)
    <2>2. /\ OlderEntry(e) \in Entries /\ OlderEntry(e).computed = age
        <3> HIDE DEF age
        <3>1. age \in Nat /\ OlderEntry(e) = [e EXCEPT !.computed = age, !.probed = 1]
            BY <1>2, <2>1 DEF age
        <3>2. QED
            BY <1>1, <3>1 DEF Entries
    <2>3. QED
        BY <1>1, <1>2, <1>3, <2>2 DEF Aged, Ages
<1>6. QED
    BY <1>3, <1>4, <1>5

LEMMA TickTyped ==
    ASSUME TypeInv, Tick
    PROVE  TypeInv'
<1>1. UNCHANGED <<half, repo, visits, op, events, ranRef>>
    BY DEF Tick
<1>2. counters' # None => Aged(counters')
    BY AgingTyped DEF Tick, TypeInv, OlderEntry
<1>3. ref' # None => ref' = [branch |-> ref'.branch, hash |-> ref'.hash, probed |-> ref'.probed]
    BY DEF Tick, TypeInv
<1>4. ASSUME NEW s \in Servers
      PROVE  JobTyped(ranTree'[s])
    <2>1. JobTyped(ranTree[s])
        BY DEF TypeInv
    <2>2. CASE ranTree[s].step # "write"
        BY <2>1, <2>2 DEF Tick
    <2>3. CASE ranTree[s].step = "write"
        <3>1. ranTree'[s] = [ranTree[s] EXCEPT !.entry = OlderEntry(@)]
            BY <2>3 DEF Tick
        <3>2. ranTree'[s] = [step |-> "write", entry |-> OlderEntry(ranTree[s].entry)]
            BY <2>1, <2>3, <3>1 DEF JobTyped
        <3>3. QED
            BY <2>1, <2>3, <3>2, AgingTyped DEF JobTyped
    <2>4. QED
        BY <2>2, <2>3
<1>5. ranTree' = [s \in Servers |-> ranTree'[s]]
    BY DEF Tick
<1>6. QED
    BY <1>1, <1>2, <1>3, <1>4, <1>5 DEF TypeInv

\* With more events no less is allowed.
LEMMA CountedLasts ==
    ASSUME TypeInv, events' \in Nat, events' >= events, UNCHANGED <<repo, visits, op>>
    PROVE  Counted(repo', visits', op', events')
<1>1. /\ events \in Nat /\ \A p \in Parts \ {"head"} : repo[p] \in Nat
      /\ \A c \in Commits : visits[c] \in Nat
    BY ConstantsAssumption DEF TypeInv, Repos, Visits
<1>2. QED
    BY <1>1 DEF TypeInv, Counted

\* An outcome spends an event only if one is left.
LEMMA OutcomesTyped ==
    ASSUME TypeInv, NEW answer, NEW o \in Outcomes(answer), events' = events + o[2]
    PROVE  events' \in 0..MaxEvents /\ events' >= events
<1>1. o[2] = 0 \/ (o[2] = 1 /\ events < MaxEvents)
    BY DEF Outcomes
<1>2. events \in Nat /\ MaxEvents \in Nat /\ events <= MaxEvents
    BY ConstantsAssumption DEF TypeInv
<1>3. QED
    BY <1>1, <1>2

\* Each step of a refresher.
LEMMA StepTyped ==
    ASSUME TypeInv, IInv, NEW s \in Servers, RefStep(s) \/ TreeStep(s) \/ Abandon(s)
    PROVE  TypeInv'
<1>1. UNCHANGED <<half, repo, visits, op>>
    BY DEF RefStep, TreeStep, Abandon, ReadBranch, ReadHash, WriteRef, ReadHead, StatIndex,
           ReadCounters, RunDiff, CountLead, WriteCounters
<1>2. events' \in 0..MaxEvents /\ events' >= events
    <2>1. CASE UNCHANGED events
        BY <2>1, ConstantsAssumption DEF TypeInv
    <2>2. CASE Abandon(s)
        BY <2>2, ConstantsAssumption DEF Abandon, TypeInv
    <2>3. CASE \E answer : \E o \in Outcomes(answer) : events' = events + o[2]
        BY <2>3, OutcomesTyped
    <2>4. QED
        BY <2>1, <2>2, <2>3 DEF RefStep, TreeStep, ReadBranch, ReadHash, WriteRef, ReadHead,
               StatIndex, ReadCounters, RunDiff, CountLead, WriteCounters
<1>3. /\ ref' # None => ref' = [branch |-> ref'.branch, hash |-> ref'.hash, probed |-> ref'.probed]
      /\ ranRef' = [t \in Servers |-> ranRef'[t]]
      /\ \A t \in Servers : ranRef'[t].step \in {"idle", "hash", "write"}
    <2>1. CASE UNCHANGED <<ref, ranRef>>
        BY <2>1 DEF TypeInv
    <2>2. CASE RefStep(s)
        BY <2>2 DEF RefStep, ReadBranch, ReadHash, WriteRef, TypeInv, Idle
    <2>3. CASE Abandon(s)
        BY <2>3 DEF Abandon, TypeInv, Idle
    <2>4. CASE TreeStep(s)
        BY <2>1, <2>4 DEF TreeStep, ReadHead, StatIndex, ReadCounters, RunDiff, CountLead, WriteCounters
    <2>5. QED
        BY <2>2, <2>3, <2>4
<1>4. ASSUME NEW j, Goes(s, j), JobTyped(j)
      PROVE  /\ ranTree' = [t \in Servers |-> ranTree'[t]]
             /\ \A t \in Servers : JobTyped(ranTree'[t])
    BY <1>4 DEF Goes, TypeInv
<1>5. \A j : j.step \in {"idle", "index", "read", "diff", "lead"} => JobTyped(j)
    BY DEF JobTyped
<1>6. /\ counters' # None => Aged(counters')
      /\ ranTree' = [t \in Servers |-> ranTree'[t]]
      /\ \A t \in Servers : JobTyped(ranTree'[t])
    <2>1. CASE RefStep(s) \/ UNCHANGED <<counters, ranTree>>
        BY <2>1 DEF RefStep, ReadBranch, ReadHash, WriteRef, TypeInv
    <2>2. CASE Abandon(s)
        BY <1>4, <1>5, <2>2 DEF Abandon, Idle, TypeInv
    <2>3. CASE ReadHead(s) \/ StatIndex(s) \/ RunDiff(s)
        <3>1. UNCHANGED counters
            BY <2>3 DEF ReadHead, StatIndex, RunDiff
        <3>2. \/ \E f : Goes(s, [step |-> "read", fingerprint |-> f])
              \/ \E h : Goes(s, [step |-> "index", head |-> h])
              \/ \E f, d : Goes(s, [step |-> "lead", fingerprint |-> f, diff |-> d])
            <4>1. CASE ReadHead(s)
                BY <4>1, Zenon DEF ReadHead
            <4>2. CASE StatIndex(s)
                BY <4>2, Zenon DEF StatIndex
            <4>3. CASE RunDiff(s)
                BY <4>3, Zenon DEF RunDiff
            <4>4. QED
                BY <2>3, <4>1, <4>2, <4>3
        <3>3. /\ \A f : JobTyped([step |-> "read", fingerprint |-> f])
              /\ \A h : JobTyped([step |-> "index", head |-> h])
              /\ \A f, d : JobTyped([step |-> "lead", fingerprint |-> f, diff |-> d])
            BY <1>5
        <3>4. QED
            BY <1>4, <3>1, <3>2, <3>3 DEF TypeInv
    <2>4. CASE ReadCounters(s)
        <3>1. UNCHANGED counters
            BY <2>4 DEF ReadCounters
        <3>2. CASE IsCurrent(counters, ranTree[s].fingerprint)
            <4>1. JobTyped([step |-> "write", entry |-> counters])
                BY <3>2 DEF JobTyped, IsCurrent, TypeInv
            <4>2. QED
                BY <1>4, <2>4, <3>1, <3>2, <4>1 DEF ReadCounters, TypeInv
        <3>3. CASE ~IsCurrent(counters, ranTree[s].fingerprint)
            BY <1>4, <1>5, <2>4, <3>1, <3>3 DEF ReadCounters, TypeInv
        <3>4. QED
            BY <3>2, <3>3
    <2>5. CASE CountLead(s)
        <3>1. PICK o \in Outcomes(Lead) :
                  Goes(s, [step |-> "write", entry |-> Computed(s, ranTree[s].fingerprint, o[1])])
            BY <2>5 DEF CountLead
        <3>2. /\ ranTree[s].fingerprint \in Prints /\ ranTree[s].diff \in Diffs
              /\ o[1] \in Leads
            BY <2>5 DEF CountLead, IInv, JobOrdered, PrintBehind, DiffBetween, Outcomes, Lead,
                        Leads, Repos, Parts
        <3>3. Aged(Computed(s, ranTree[s].fingerprint, o[1]))
            BY <3>2, ConstantsAssumption DEF Aged, Computed, Entries, Ages
        <3>4. QED
            BY <1>4, <2>5, <3>1, <3>3 DEF CountLead, JobTyped, TypeInv
    <2>6. CASE WriteCounters(s)
        <3>1. Aged(ranTree[s].entry)
            BY <2>6 DEF WriteCounters, TypeInv, JobTyped
        <3>2. QED
            BY <1>4, <1>5, <2>6, <3>1, AgingTyped DEF WriteCounters, Idle
    <2>7. QED
        BY <2>1, <2>2, <2>3, <2>4, <2>5, <2>6 DEF TreeStep
<1>7. Counted(repo', visits', op', events')
    BY <1>1, <1>2, CountedLasts, ConstantsAssumption
<1>8. QED
    BY <1>1, <1>2, <1>3, <1>6, <1>7 DEF TypeInv

\* The types of both caches and of their refreshers (gitref.py), for any number
\* of servers, commits, events and ages.
THEOREM TypeCorrect == Spec => []TypeOK
<1>1. TypeInv => TypeOK
    <2> SUFFICES ASSUME TypeInv
                 PROVE  TypeOK
        OBVIOUS
    <2>1. /\ DOMAIN repo = Parts /\ repo.head \in Commits /\ visits[repo.head] > 0
          /\ \A p \in Parts \ {"head"} : repo[p] \in 0..MaxEvents
          /\ visits \in [Commits -> 0..MaxEvents + 1]
        <3>1. /\ MaxEvents \in Nat /\ events \in Nat /\ events <= MaxEvents
              /\ repo \in Repos /\ visits \in Visits /\ visits[repo.head] > 0
              /\ Counted(repo, visits, op, events)
            BY ConstantsAssumption DEF TypeInv
        <3>2. \A p \in Parts \ {"head"} : repo[p] \in Nat /\ repo[p] <= events
            BY <3>1 DEF Repos, Counted
        <3>3. \A c \in Commits : visits[c] \in Nat /\ visits[c] <= events + 1
            BY <3>1 DEF Visits, Counted
        <3>4. visits = [c \in Commits |-> visits[c]]
            BY <3>1 DEF Visits
        <3>5. QED
            BY <3>1, <3>2, <3>3, <3>4 DEF Repos
    <2>2. ref # None => DOMAIN ref = {"branch", "hash", "probed"}
        BY DEF TypeInv
    <2>3. counters # None => /\ DOMAIN counters = {"fingerprint", "diff", "lead", "computed", "probed"}
                             /\ counters.computed \in Ages /\ counters.probed \in {0, 1}
                             /\ counters.probed = 1 => counters.computed >= 1
        BY DEF TypeInv, Aged, Entries
    <2>4. QED
        BY <2>1, <2>2, <2>3 DEF TypeInv, TypeOK, JobTyped
<1>2. IInv /\ TypeInv /\ [Next]_vars => TypeInv'
    <2> SUFFICES ASSUME IInv, TypeInv, [Next]_vars
                 PROVE  TypeInv'
        OBVIOUS
    <2>1. CASE UNCHANGED vars
        BY <2>1 DEF vars, TypeInv
    <2>2. QED
        BY <2>1, RepositoryTyped, TickTyped, StepTyped DEF Next
<1>3. QED
    BY InitHolds, InitTyped, NextKeeps, <1>1, <1>2, PTL DEF Spec
=============================================================================
