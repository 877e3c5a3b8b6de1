----------------------------- MODULE SessionScan -----------------------------
(***************************************************************************)
(* sessions._count_via_psutil: how many interactive agent sessions run in  *)
(* a directory, read off a process table that changes under the scan.      *)
(*                                                                         *)
(* Processes are launched, exit, and leave pids behind that others take.   *)
(* The scan takes the names at one moment, what it needs of a candidate at *)
(* another, and the rows of the ancestors one by one as the walk gets to   *)
(* them; a row once fetched is kept for the rest of the scan.              *)
(***************************************************************************)
EXTENDS Naturals, FiniteSets

CONSTANTS
    Pids,
    Host,        \* the pids outside the model that the code tells by number: 0, 1
    None,        \* no process, no pid
    Images,      \* what a process can be: see Image
    WalkLimit,   \* _ANCESTOR_WALK_LIMIT
    MaxBirths    \* bound: processes ever launched

\* Of a process: its name; whether its command line, for a name that does not
\* tell, is that of an agent; the `-p` flag; whether it runs in the directory
\* that is counted; the mark of a child session; whether psutil may read it.
Image == [name : {"claude", "node", "shell"}, agent : BOOLEAN, print : BOOLEAN,
          here : BOOLEAN, marked : BOOLEAN, readable : BOOLEAN]

ASSUME ConstantsAssumption ==
    /\ Host \notin Pids /\ None \notin Pids \cup {Host}
    /\ Images \subseteq Image
    /\ WalkLimit \in Nat /\ MaxBirths \in Nat

VARIABLES
    table,      \* of each pid, the process that has it
    births,     \* processes launched so far: the clock of create_time
    scan

vars == <<table, births, scan>>

\* History: `line` holds the births of the processes it descends from, `nodes`
\* those of the node programs among them, and `spawner` that of the closest
\* agent among them, or 0.
Processes == [image : Images, ppid : Pids \cup {Host}, born : 1..MaxBirths,
              line : SUBSET (1..MaxBirths), nodes : SUBSET (1..MaxBirths),
              spawner : 0..MaxBirths]

Alive == {p \in Pids : table[p] # None}

IsAgentRuntime(image) == image.name = "claude" \/ (image.name = "node" /\ image.agent)

Row == [ppid : Pids \cup {Host, None}, name : {"claude", "node", "shell"},
        born : 0..MaxBirths]

ASSUME NoneAssumption == None \notin Processes /\ None \notin Row

\* No scan under way.  `before` is history: the births alive when it began.
Rest == [step |-> "idle", names |-> <<>>, todo |-> {}, rows |-> <<>>, counted |-> {},
         pid |-> None, at |-> None, child |-> 0, seen |-> {}, before |-> {}]

TypeOK ==
    /\ table \in [Pids -> Processes \cup {None}]
    /\ births \in 0..MaxBirths
    /\ scan.step \in {"idle", "next", "self", "parent", "walk", "ask", "done"}
    /\ scan.todo \cup scan.counted \cup scan.seen \subseteq Pids
    /\ \A p \in DOMAIN scan.rows : scan.rows[p] \in Row \cup {None}

Init ==
    /\ table = [p \in Pids |-> None]
    /\ births = 0
    /\ scan = Rest

-----------------------------------------------------------------------------
(* External: the processes of the machine.                                 *)

Newborn(parent, image) ==
    [image |-> image, ppid |-> parent, born |-> births + 1,
     line |-> IF parent = Host THEN {}
              ELSE table[parent].line \cup {table[parent].born},
     nodes |-> IF parent = Host THEN {}
               ELSE IF table[parent].image.name = "node"
                    THEN table[parent].nodes \cup {table[parent].born}
                    ELSE table[parent].nodes,
     spawner |-> IF parent = Host THEN 0
                 ELSE IF IsAgentRuntime(table[parent].image)
                      THEN table[parent].born ELSE table[parent].spawner]

Launch(p, parent, image) ==
    /\ births < MaxBirths
    /\ table[p] = None
    /\ births' = births + 1
    /\ table' = [table EXCEPT ![p] = Newborn(parent, image)]
    /\ UNCHANGED scan

\* Its children keep the pid as their parent's, or are given to init.
Exit(p) ==
    /\ table[p] # None
    /\ \E orphans \in {p, Host} :
          table' = [q \in Pids |->
             IF q = p THEN None
             ELSE IF table[q] # None /\ table[q].ppid = p /\ table[p].born \in table[q].line
                  THEN [table[q] EXCEPT !.ppid = orphans]
                  ELSE table[q]]
    /\ UNCHANGED <<births, scan>>

-----------------------------------------------------------------------------
(* The scan.                                                               *)

BirthsAlive == {table[p].born : p \in Alive}

\* Mutant of Enumerate: the candidates are the names, not the processes.
EnumerateNames ==
    /\ scan.step = "idle"
    /\ scan' = [Rest EXCEPT
          !.step = "next",
          !.names = [p \in Alive |-> table[p].image.name],
          !.todo = {table[p].image.name : p \in Alive} \cap {"claude", "node"},
          !.before = BirthsAlive]
    /\ UNCHANGED <<table, births>>

\* _ProcessScan: one pass over the names, which also picks the candidates.
Enumerate ==
    /\ scan.step = "idle"
    /\ scan' = [Rest EXCEPT
          !.step = "next",
          !.names = [p \in Alive |-> table[p].image.name],
          !.todo = {p \in Alive : table[p].image.name \in {"claude", "node"}},
          !.before = BirthsAlive]
    /\ UNCHANGED <<table, births>>

\* _process_matches and _is_child_session_env, on the candidate as it is now.
Matches(p) ==
    LET image == table[p].image
    IN  /\ table[p] # None
        /\ image.readable
        /\ scan.names[p] = "node" => image.agent
        /\ ~image.print
        /\ image.here
        /\ ~image.marked

Classify(p) ==
    /\ scan.step = "next"
    /\ p \in scan.todo
    /\ scan' = IF Matches(p)
               THEN [scan EXCEPT !.todo = @ \ {p}, !.step = "self", !.pid = p]
               ELSE [scan EXCEPT !.todo = @ \ {p}]
    /\ UNCHANGED <<table, births>>

\* _LazySnapshot.get: the row kept, or else the one read now.
RowOf(p) ==
    IF p \in DOMAIN scan.rows THEN scan.rows[p]
    ELSE IF p \notin Alive THEN None
    ELSE LET name == IF p \in DOMAIN scan.names THEN scan.names[p] ELSE table[p].image.name
         IN  IF table[p].image.readable
             THEN [ppid |-> table[p].ppid, name |-> name, born |-> table[p].born]
             ELSE [ppid |-> None, name |-> name, born |-> 0]

RowsWith(p) == [q \in DOMAIN scan.rows \cup {p} |-> RowOf(q)]

\* The verdict on the candidate.
Judged(rows, isSession) ==
    [scan EXCEPT !.step = "next", !.rows = rows, !.pid = None, !.at = None, !.child = 0,
                 !.seen = {}, !.counted = IF isSession THEN @ \cup {scan.pid} ELSE @]

\* _is_excluded_by_tree: the candidate's own row; it may have exited.
FetchSelf ==
    /\ scan.step = "self"
    /\ LET row == RowOf(scan.pid)
           rows == RowsWith(scan.pid)
       IN  scan' = IF row = None THEN Judged(rows, FALSE)
                   ELSE [scan EXCEPT !.step = "parent", !.rows = rows,
                                     !.at = row.ppid, !.child = row.born]
    /\ UNCHANGED <<table, births>>

\* Mutant of FetchParent: a parent is whoever has its pid.
FetchParentByPid ==
    /\ scan.step = "parent"
    /\ scan' = IF scan.at \notin Pids THEN Judged(scan.rows, FALSE)
               ELSE IF RowOf(scan.at) = None THEN Judged(RowsWith(scan.at), FALSE)
               ELSE [scan EXCEPT !.step = "walk", !.rows = RowsWith(scan.at)]
    /\ UNCHANGED <<table, births>>

\* An orphan: its parent is gone, is init, or is younger than the candidate,
\* which then has taken the pid of the parent.
FetchParent ==
    /\ scan.step = "parent"
    /\ LET isPid == scan.at \in Pids
           row == RowOf(scan.at)
           rows == IF isPid THEN RowsWith(scan.at) ELSE scan.rows
       IN  scan' = IF ~isPid \/ row = None THEN Judged(rows, FALSE)
                   ELSE IF row.born > scan.child THEN Judged(rows, FALSE)
                   ELSE [scan EXCEPT !.step = "walk", !.rows = rows]
    /\ UNCHANGED <<table, births>>

\* One generation up, from the row that the walk has got to.
Climbed(rows, child) ==
    [scan EXCEPT !.step = "walk", !.rows = rows, !.at = rows[scan.at].ppid,
                 !.child = child, !.seen = @ \cup {scan.at}]

GoesOn == scan.at \in Pids \ scan.seen /\ Cardinality(scan.seen) < WalkLimit

\* Mutant of Walk: ages are compared with the candidate's, not the child's.
WalkFromCandidate ==
    /\ scan.step = "walk"
    /\ LET row == RowOf(scan.at)
           rows == IF GoesOn THEN RowsWith(scan.at) ELSE scan.rows
       IN  scan' = IF ~GoesOn \/ row = None THEN Judged(rows, TRUE)
                   ELSE IF row.born > scan.child THEN Judged(rows, TRUE)
                   ELSE IF row.name = "claude" THEN Judged(rows, FALSE)
                   ELSE IF row.name = "node" THEN [scan EXCEPT !.step = "ask", !.rows = rows]
                   ELSE Climbed(rows, scan.child)
    /\ UNCHANGED <<table, births>>

\* Mutant of Walk: only the parent is asked whether it is an agent.
WalkOneUp ==
    /\ scan.step = "walk"
    /\ scan' = Judged(scan.rows, RowOf(scan.at).name # "claude")
    /\ UNCHANGED <<table, births>>

\* Up the ancestors.  A chain that breaks above the parent does not exclude.
Walk ==
    /\ scan.step = "walk"
    /\ LET row == RowOf(scan.at)
           rows == IF GoesOn THEN RowsWith(scan.at) ELSE scan.rows
       IN  scan' = IF ~GoesOn \/ row = None THEN Judged(rows, TRUE)
                   ELSE IF row.born > scan.child THEN Judged(rows, TRUE)
                   ELSE IF row.name = "claude" THEN Judged(rows, FALSE)
                   ELSE IF row.name = "node" THEN [scan EXCEPT !.step = "ask", !.rows = rows]
                   ELSE Climbed(rows, row.born)
    /\ UNCHANGED <<table, births>>

\* The row says node; the command line is that of whoever has the pid now.
Ask ==
    /\ scan.step = "ask"
    /\ scan' = IF scan.at \in Alive /\ table[scan.at].image.readable /\ table[scan.at].image.agent
               THEN Judged(scan.rows, FALSE)
               ELSE Climbed(scan.rows, scan.rows[scan.at].born)
    /\ UNCHANGED <<table, births>>

\* The count goes to the cache, and the next refresh takes a scan of its own.
Finish ==
    /\ scan.step = "next" /\ scan.todo = {}
    /\ scan' = [scan EXCEPT !.step = "done", !.rows = <<>>, !.names = <<>>]
    /\ UNCHANGED <<table, births>>

Report ==
    /\ scan.step = "done"
    /\ scan' = Rest
    /\ UNCHANGED <<table, births>>

ScanStep ==
    \/ Enumerate
    \/ \E p \in Pids : Classify(p)
    \/ FetchSelf \/ FetchParent \/ Walk \/ Ask
    \/ Finish \/ Report

Next ==
    \/ \E p \in Pids, parent \in Alive \cup {Host}, image \in Images : Launch(p, parent, image)
    \/ \E p \in Pids : Exit(p)
    \/ ScanStep

Spec == Init /\ [][Next]_vars

-----------------------------------------------------------------------------

\* The process has been there since the scan began.
Steady(p) == p \in Alive /\ table[p].born \in scan.before

ParentOf(p) == CHOOSE b \in table[p].line : \A c \in table[p].line : c <= b

\* A session: an agent in the directory, neither scripted nor marked, that no
\* agent had a part in launching.
IsSession(p) ==
    /\ IsAgentRuntime(table[p].image)
    /\ ~table[p].image.print /\ table[p].image.here /\ ~table[p].image.marked
    /\ table[p].image.readable
    /\ table[p].spawner = 0

\* A session with its shell.
HasItsShell(p) ==
    Steady(p) /\ IsSession(p) /\ table[p].line # {} /\ ParentOf(p) \in BirthsAlive

\* A scan never hides a session whose shell is alive, whatever comes and goes
\* around the two and whoever has the pid of an ancestor that is gone
\* (_is_excluded_by_tree: "never hides a real one"), as long as the node
\* programs among its ancestors live.
SessionsAreCounted ==
    scan.step = "done" =>
        \A p \in Pids :
            HasItsShell(p) /\ table[p].nodes \subseteq BirthsAlive => p \in scan.counted

\* What the text of the code says without that condition.  It fails: an agent
\* may have taken the pid of a node ancestor between its row and its command
\* line, or since another candidate had that row read.
SessionsAreNeverHidden ==
    scan.step = "done" => \A p \in Pids : HasItsShell(p) => p \in scan.counted

\* The ancestors from the parent up to the agent.
Chain(p) == {b \in table[p].line : b >= table[p].spawner}

\* What an agent launched, at no more removes than the walk goes, is not counted
\* as long as the agent and those between live (the agent-descendant rule).
HelpersAreNotCounted ==
    \A p \in scan.counted :
        Steady(p) /\ table[p].spawner # 0 /\ Cardinality(Chain(p)) <= WalkLimit
            => ~(Chain(p) \subseteq BirthsAlive)

\* An agent whose parent was dead when the scan began is not counted, even if
\* another process has the parent's pid (the orphan rule).
OrphansAreNotCounted ==
    \A p \in scan.counted :
        Steady(p) => table[p].line # {} /\ ParentOf(p) \in scan.before
=============================================================================
