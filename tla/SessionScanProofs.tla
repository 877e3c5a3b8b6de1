-------------------------- MODULE SessionScanProofs --------------------------
(***************************************************************************)
(* Proofs that a scan counts no orphan, counts the sessions it is to count *)
(* and leaves out what agents launched, whatever the number of pids and of *)
(* processes, as long as psutil may read each of them.                     *)
(*                                                                         *)
(* Births only grow, so whoever takes the pid of a parent that is gone is  *)
(* younger than the child.  The rows are read at different moments; what   *)
(* carries over from one to the next is about the processes that are there *)
(* through the whole scan, and about whoever has the pid they name.        *)
(*                                                                         *)
(* The walk up from a candidate is at a pid; the ancestors are births.     *)
(* What ties the two together differs.  Of a helper all processes up to    *)
(* the agent live, so the pid is that of the next of them.  Of a session   *)
(* some may be gone: whoever has the pid is an ancestor or younger than    *)
(* the child, and the walk tells the two apart by their births.            *)
(***************************************************************************)
EXTENDS SessionScan, FiniteSetTheorems, TLAPS

\* What psutil cannot read has no birth to compare.
AllReadable == \A image \in Images : image.readable

Parent(p, b) == b \in table[p].line /\ \A c \in table[p].line : c <= b

\* The process of birth b, which has or had the pid that p names as its
\* parent's, is the parent or took the pid after p was born.
ParentOrLater(p, b) == Parent(p, b) \/ b > table[p].born

TableInv ==
    /\ births \in Nat
    /\ table \in [Pids -> Processes \cup {None}]
    /\ \A p \in Alive : table[p].born <= births /\ table[p].image.readable
    /\ \A p \in Alive : \A b \in table[p].line : b < table[p].born
    /\ \A p, q \in Alive : table[p].ppid = q => ParentOrLater(p, table[q].born)

\* Seen alive in the course of the scan: there at its beginning, or born since.
SeenBirth(b) == b \in Nat /\ (b \in scan.before \/ \A c \in scan.before : c < b)

\* What the rows say of a process that is there through the whole scan is true
\* of it, and whoever has its parent's pid is the parent or a later process.
RowsInv(rows) ==
    /\ DOMAIN rows \subseteq Pids
    /\ \A x \in DOMAIN rows : rows[x] # None => SeenBirth(rows[x].born)
    /\ \A x \in DOMAIN rows : Steady(x) => rows[x] # None /\ rows[x].born = table[x].born
    /\ \A x \in Pids, y \in DOMAIN rows :
          Steady(x) /\ table[x].ppid = y /\ rows[y] # None => ParentOrLater(x, rows[y].born)
    /\ \A x \in DOMAIN rows, y \in Pids :
          Steady(x) /\ rows[x].ppid = y =>
              /\ y \in Alive => ParentOrLater(x, table[y].born)
              /\ y \in DOMAIN rows /\ rows[y] # None => ParentOrLater(x, rows[y].born)

\* What counting a candidate takes.
Launched(p) == Steady(p) => table[p].line # {} /\ ParentOf(p) \in scan.before

Names(names) == \A p \in DOMAIN names : names[p] \in {"claude", "node", "shell"}

\* The scan is a record of the fields it began with.
Fields == [step |-> scan.step, names |-> scan.names, todo |-> scan.todo, rows |-> scan.rows,
           counted |-> scan.counted, pid |-> scan.pid, at |-> scan.at, child |-> scan.child,
           seen |-> scan.seen, before |-> scan.before]

ScanInv ==
    /\ scan = Fields
    /\ scan.before \subseteq 1..births
    /\ \A p \in Alive : SeenBirth(table[p].born)
    /\ Names(scan.names)
    /\ RowsInv(scan.rows)
    /\ scan.todo \subseteq Pids /\ scan.counted \subseteq Pids
    /\ scan.step \in {"self", "parent", "walk", "ask"} => scan.pid \in Pids
    /\ scan.step = "parent" =>
          /\ scan.pid \in DOMAIN scan.rows /\ scan.rows[scan.pid] # None
          /\ scan.at = scan.rows[scan.pid].ppid /\ scan.child = scan.rows[scan.pid].born
    /\ scan.step \in {"walk", "ask"} => Launched(scan.pid)
    /\ \A p \in scan.counted : Launched(p)

IInv == TableInv /\ ScanInv

-----------------------------------------------------------------------------

LEMMA NoRows == DOMAIN <<>> = {}
OBVIOUS

LEMMA ProcessFields ==
    ASSUME TableInv, NEW p \in Alive
    PROVE  /\ table[p] \in Processes
           /\ p \in Pids /\ table[p] # None
           /\ table[p].born \in Nat /\ table[p].born <= MaxBirths
           /\ table[p].line \subseteq Nat
           /\ table[p].ppid \in Pids \cup {Host}
BY ConstantsAssumption DEF TableInv, Alive, Processes

LEMMA InitHolds == Init => IInv
<1> SUFFICES ASSUME Init
             PROVE  IInv
    OBVIOUS
<1>1. Alive = {}
    BY DEF Init, Alive
<1>2. TableInv
    BY <1>1 DEF Init, TableInv
<1>3. RowsInv(scan.rows)
    BY <1>1, NoRows DEF Init, Rest, RowsInv, Steady
<1>4. ScanInv
    BY <1>1, <1>3, NoRows DEF Init, Rest, ScanInv, Names, Fields
<1>5. QED
    BY <1>2, <1>4 DEF IInv

-----------------------------------------------------------------------------
(* The machine.                                                            *)

LEMMA LaunchChanges ==
    ASSUME TableInv, NEW p \in Pids, NEW parent \in Alive \cup {Host},
           NEW image \in Images, Launch(p, parent, image)
    PROVE  /\ births \in Nat /\ births < MaxBirths /\ births' = births + 1
           /\ table' \in [Pids -> Processes \cup {None}]
           /\ table'[p] = Newborn(parent, image)
           /\ p \notin Alive /\ Alive' = Alive \cup {p}
           /\ \A q \in Alive : table'[q] = table[q] /\ q # p
           /\ parent # Host => /\ parent \in Alive /\ parent # p
                              /\ table[parent].born \in 1..MaxBirths
                              /\ table[parent].born < births + 1
<1> DEFINE new == Newborn(parent, image)
<1>1. /\ table' = [table EXCEPT ![p] = new] /\ births' = births + 1
      /\ births < MaxBirths /\ p \notin Alive
    BY DEF Launch, Alive
<1>2. births \in Nat /\ births + 1 \in 1..MaxBirths
    BY <1>1, ConstantsAssumption DEF TableInv
<1>3. parent # Host => /\ parent \in Alive /\ parent # p
                       /\ table[parent].born \in 1..MaxBirths
                       /\ table[parent].born < births + 1
                       /\ table[parent].line \in SUBSET (1..MaxBirths)
                       /\ table[parent].nodes \in SUBSET (1..MaxBirths)
                       /\ table[parent].spawner \in 0..MaxBirths
    <2> SUFFICES ASSUME parent # Host
                 PROVE  /\ parent \in Alive /\ parent # p
                        /\ table[parent].born \in 1..MaxBirths
                        /\ table[parent].born < births + 1
                        /\ table[parent].line \in SUBSET (1..MaxBirths)
                        /\ table[parent].nodes \in SUBSET (1..MaxBirths)
                        /\ table[parent].spawner \in 0..MaxBirths
        OBVIOUS
    <2>1. parent \in Alive /\ parent # p
        BY <1>1
    <2>2. table[parent] \in Processes /\ table[parent].born <= births
        BY <2>1, ProcessFields DEF TableInv
    <2>3. QED
        BY <2>1, <2>2, <1>2, ConstantsAssumption DEF Processes, TableInv
<1>4. new \in Processes
    <2>1. /\ new.line \in SUBSET (1..MaxBirths) /\ new.nodes \in SUBSET (1..MaxBirths)
          /\ new.spawner \in 0..MaxBirths
        BY <1>3, ConstantsAssumption DEF Newborn
    <2>2. parent \in Pids \cup {Host}
        BY DEF Alive
    <2>3. QED
        BY <1>2, <2>1, <2>2 DEF Processes, Newborn
<1>5. table' \in [Pids -> Processes \cup {None}]
    BY <1>1, <1>4 DEF TableInv
<1>6. /\ Alive' = Alive \cup {p} /\ table'[p] = new
      /\ \A q \in Alive : table'[q] = table[q] /\ q # p
    BY <1>1, <1>4, NoneAssumption DEF TableInv, Alive
<1>7. QED
    BY <1>1, <1>2, <1>3, <1>5, <1>6

LEMMA LaunchKeepsTable ==
    ASSUME TableInv, AllReadable, NEW p \in Pids, NEW parent \in Alive \cup {Host},
           NEW image \in Images, Launch(p, parent, image)
    PROVE  TableInv'
<1> DEFINE new == Newborn(parent, image)
<1>2. births' \in Nat /\ births' = births + 1 /\ births \in Nat
    BY LaunchChanges
<1>3. parent # Host => /\ parent \in Alive /\ parent # p
                       /\ table[parent].born \in Nat
                       /\ table[parent].born < births + 1
    BY LaunchChanges
<1>4. /\ new.born = births + 1 /\ new.ppid = parent /\ new.image = image
      /\ new.line = IF parent = Host THEN {} ELSE table[parent].line \cup {table[parent].born}
    BY DEF Newborn
<1>5. table' \in [Pids -> Processes \cup {None}]
    BY LaunchChanges
<1>6. /\ Alive' = Alive \cup {p} /\ table'[p] = new
      /\ \A q \in Alive : table'[q] = table[q] /\ q # p
    BY LaunchChanges
<1> HIDE DEF new
<1>7. \A q \in Alive' : table'[q].born <= births' /\ table'[q].image.readable
    BY <1>2, <1>4, <1>6, ProcessFields, ConstantsAssumption DEF TableInv, AllReadable
<1>8. \A b \in new.line : b < births + 1
    <2>1. CASE parent = Host
        BY <1>4, <2>1
    <2>2. CASE parent # Host
        <3>1. \A b \in table[parent].line : b \in Nat /\ b < table[parent].born
            BY <1>3, <2>2, ProcessFields DEF TableInv
        <3>2. QED
            BY <1>2, <1>3, <1>4, <2>2, <3>1
    <2>3. QED
        BY <2>1, <2>2
<1>9. \A q \in Alive' : \A b \in table'[q].line : b < table'[q].born
    BY <1>4, <1>6, <1>8 DEF TableInv
<1>10. ASSUME NEW x \in Alive', NEW y \in Alive', table'[x].ppid = y
       PROVE  ParentOrLater(x, table[y].born)'
    <2>1. CASE x = p
        <3>1. parent = y /\ parent \in Alive /\ parent # p
            BY <1>3, <1>4, <1>6, <1>10, <2>1, ConstantsAssumption DEF Alive
        <3>2. \A c \in new.line : c <= table[parent].born
            <4>1. \A b \in table[parent].line : b \in Nat /\ b < table[parent].born
                BY <3>1, ProcessFields DEF TableInv
            <4>2. parent # Host
                BY <3>1, ConstantsAssumption DEF Alive
            <4>3. QED
                BY <1>3, <1>4, <4>1, <4>2
        <3>3. parent # Host
            BY <3>1, ConstantsAssumption DEF Alive
        <3>4. table[parent].born \in new.line
            BY <1>4, <3>3
        <3>5. table'[y] = table[parent]
            BY <1>6, <3>1
        <3>6. QED
            BY <1>6, <2>1, <3>2, <3>4, <3>5 DEF ParentOrLater, Parent
    <2>2. CASE x # p /\ y = p
        <3>1. table'[x] = table[x] /\ x \in Alive /\ table[x].born <= births /\ table[x].born \in Nat
            BY <1>6, <2>2, ProcessFields DEF TableInv
        <3>2. table'[y].born > table'[x].born
            BY <1>2, <1>4, <1>6, <2>2, <3>1 DEF TableInv
        <3>3. QED
            BY <3>2 DEF ParentOrLater
    <2>3. CASE x # p /\ y # p
        <3>1. x \in Alive /\ y \in Alive /\ table'[x] = table[x] /\ table'[y] = table[y]
            BY <1>6, <2>3
        <3>2. ParentOrLater(x, table[y].born)
            BY <1>10, <3>1 DEF TableInv
        <3>3. QED
            BY <3>1, <3>2 DEF ParentOrLater, Parent
    <2>4. QED
        BY <2>1, <2>2, <2>3
<1>11. QED
    BY <1>2, <1>5, <1>7, <1>9, <1>10 DEF TableInv

\* What a process is stays, but for the pid of its parent.
SameButParent(old, new) ==
    /\ new.born = old.born /\ new.line = old.line /\ new.image = old.image
    /\ new.nodes = old.nodes /\ new.spawner = old.spawner
    /\ new.ppid \in {old.ppid, Host}

LEMMA ExitChanges ==
    ASSUME TableInv, NEW p \in Pids, Exit(p)
    PROVE  /\ p \in Alive /\ Alive' = Alive \ {p} /\ births' = births
           /\ table' \in [Pids -> Processes \cup {None}]
           /\ \A q \in Alive' : SameButParent(table[q], table'[q])
           /\ \A q \in Alive' : table[q].ppid # p => table'[q] = table[q]
<1>1. PICK orphans \in {p, Host} :
          table' = [q \in Pids |->
             IF q = p THEN None
             ELSE IF table[q] # None /\ table[q].ppid = p /\ table[p].born \in table[q].line
                  THEN [table[q] EXCEPT !.ppid = orphans]
                  ELSE table[q]]
    BY DEF Exit
<1>2. table[p] # None /\ births' = births
    BY DEF Exit
<1>3. ASSUME NEW q \in Pids, q # p, q \in Alive
      PROVE  /\ table'[q] \in Processes /\ SameButParent(table[q], table'[q])
             /\ table[q].ppid # p => table'[q] = table[q]
    <2>1. table[q] \in Processes
        BY <1>3, ProcessFields
    <2>2. CASE table[q].ppid = p /\ table[p].born \in table[q].line
        <3>1. table'[q] = [table[q] EXCEPT !.ppid = orphans]
            BY <1>1, <1>3, <2>2 DEF Alive
        <3>2. QED
            BY <2>1, <2>2, <3>1 DEF Processes, SameButParent
    <2>3. CASE ~(table[q].ppid = p /\ table[p].born \in table[q].line)
        <3>1. table'[q] = table[q]
            BY <1>1, <1>3, <2>3 DEF Alive
        <3>2. QED
            BY <2>1, <3>1 DEF SameButParent
    <2>4. QED
        BY <2>2, <2>3
<1>4. \A q \in Pids : (q = p \/ q \notin Alive) => table'[q] = None
    BY <1>1 DEF Alive
<1>5. Alive' = Alive \ {p}
    BY <1>3, <1>4, NoneAssumption DEF Alive
<1>6. table' = [q \in Pids |-> table'[q]]
    BY <1>1
<1>7. table' \in [Pids -> Processes \cup {None}]
    BY <1>3, <1>4, <1>6
<1>8. QED
    BY <1>2, <1>3, <1>5, <1>7 DEF Alive

LEMMA ExitKeepsTable ==
    ASSUME TableInv, NEW p \in Pids, Exit(p)
    PROVE  TableInv'
<1>1. /\ Alive' = Alive \ {p} /\ births' = births
      /\ table' \in [Pids -> Processes \cup {None}]
      /\ \A q \in Alive' : SameButParent(table[q], table'[q])
    BY ExitChanges
<1>2. ASSUME NEW x \in Alive', NEW y \in Alive', table'[x].ppid = y
      PROVE  ParentOrLater(x, table[y].born)'
    <2>1. x \in Alive /\ y \in Alive /\ y # Host
        BY <1>1, ConstantsAssumption DEF Alive
    <2>2. table[x].ppid = y
        BY <1>1, <1>2, <2>1 DEF SameButParent
    <2>3. ParentOrLater(x, table[y].born)
        BY <2>1, <2>2 DEF TableInv
    <2>4. QED
        BY <1>1, <2>3 DEF SameButParent, ParentOrLater, Parent
<1>3. /\ births' \in Nat
      /\ \A q \in Alive' : table'[q].born <= births' /\ table'[q].image.readable
      /\ \A q \in Alive' : \A b \in table'[q].line : b < table'[q].born
    BY <1>1 DEF TableInv, SameButParent
<1>4. QED
    BY <1>1, <1>2, <1>3 DEF TableInv

\* Who is there through the scan was there before the step; and who is there
\* now was, or is newly born.
MachineMoves ==
    /\ \A x \in Alive' : \/ x \in Alive /\ SameButParent(table[x], table'[x])
                         \/ table'[x].born = births + 1
    /\ births' \in {births, births + 1}

LEMMA LaunchMoves ==
    ASSUME TableInv, NEW p \in Pids, NEW parent \in Alive \cup {Host},
           NEW image \in Images, Launch(p, parent, image)
    PROVE  MachineMoves
<1>1. /\ births' = births + 1 /\ Alive' = Alive \cup {p} /\ table'[p].born = births + 1
      /\ \A q \in Alive : table'[q] = table[q]
    <2>1. /\ births' = births + 1 /\ Alive' = Alive \cup {p} /\ table'[p] = Newborn(parent, image)
          /\ \A q \in Alive : table'[q] = table[q]
        BY LaunchChanges
    <2>2. Newborn(parent, image).born = births + 1
        BY DEF Newborn
    <2>3. QED
        BY <2>1, <2>2
<1>2. QED
    BY <1>1 DEF MachineMoves, SameButParent

LEMMA ExitMoves ==
    ASSUME TableInv, NEW p \in Pids, Exit(p)
    PROVE  MachineMoves
BY ExitChanges DEF MachineMoves

-----------------------------------------------------------------------------
(* What a step of the machine leaves of what the scan knows.               *)

LEMMA SteadyLasts ==
    ASSUME IInv, MachineMoves, UNCHANGED scan, NEW x \in Pids, Steady(x)'
    PROVE  /\ Steady(x) /\ SameButParent(table[x], table'[x])
<1>1. x \in Alive' /\ table'[x].born \in scan.before
    BY DEF Steady
<1>2. births + 1 \notin scan.before
    BY DEF IInv, TableInv, ScanInv
<1>3. x \in Alive /\ SameButParent(table[x], table'[x])
    BY <1>1, <1>2 DEF MachineMoves
<1>4. QED
    BY <1>1, <1>3 DEF Steady, SameButParent

LEMMA MachineKeepsRows ==
    ASSUME IInv, TableInv', MachineMoves, UNCHANGED scan
    PROVE  RowsInv(scan.rows)'
<1> DEFINE rows == scan.rows
<1>1. RowsInv(rows) /\ rows' = rows
    BY DEF IInv, ScanInv
<1>2. \A x \in Pids : Steady(x)' => Steady(x) /\ SameButParent(table[x], table'[x])
    BY SteadyLasts
<1>3. DOMAIN rows \subseteq Pids
    BY <1>1 DEF RowsInv
<1>4. \A x \in DOMAIN rows : rows[x] # None => SeenBirth(rows[x].born)'
    BY <1>1 DEF RowsInv, SeenBirth
<1>5. \A x \in DOMAIN rows : Steady(x)' => rows[x] # None /\ rows[x].born = table'[x].born
    BY <1>1, <1>2, <1>3 DEF RowsInv, SameButParent
<1>6. ASSUME NEW x \in Pids, NEW y \in DOMAIN rows, Steady(x)', table'[x].ppid = y, rows[y] # None
      PROVE  ParentOrLater(x, rows[y].born)'
    <2>1. Steady(x) /\ SameButParent(table[x], table'[x])
        BY <1>2, <1>6
    <2>2. table[x].ppid = y
        BY <1>3, <1>6, <2>1, ConstantsAssumption DEF SameButParent
    <2>3. ParentOrLater(x, rows[y].born)
        BY <1>1, <1>6, <2>1, <2>2 DEF RowsInv
    <2>4. QED
        BY <2>1, <2>3 DEF SameButParent, ParentOrLater, Parent
<1>7. ASSUME NEW x \in DOMAIN rows, NEW y \in Pids, Steady(x)', rows[x].ppid = y
      PROVE  /\ y \in Alive' => ParentOrLater(x, table[y].born)'
             /\ y \in DOMAIN rows /\ rows[y] # None => ParentOrLater(x, rows[y].born)'
    <2>1. Steady(x) /\ SameButParent(table[x], table'[x])
        BY <1>2, <1>3, <1>7
    <2>2. ASSUME y \in DOMAIN rows, rows[y] # None
          PROVE  ParentOrLater(x, rows[y].born)'
        <3>1. ParentOrLater(x, rows[y].born)
            BY <1>1, <1>7, <2>1, <2>2 DEF RowsInv
        <3>2. QED
            BY <2>1, <3>1 DEF SameButParent, ParentOrLater, Parent
    <2>3. ASSUME y \in Alive'
          PROVE  ParentOrLater(x, table[y].born)'
        <3>1. CASE y \in Alive /\ SameButParent(table[y], table'[y])
            <4>1. ParentOrLater(x, table[y].born)
                BY <1>1, <1>7, <2>1, <3>1 DEF RowsInv
            <4>2. QED
                BY <2>1, <3>1, <4>1 DEF SameButParent, ParentOrLater, Parent
        <3>2. CASE table'[y].born = births + 1
            <4>1. x \in Alive
                BY <2>1 DEF Steady
            <4>2. births \in Nat /\ table[x].born \in Nat /\ table[x].born <= births
                BY <4>1, ProcessFields DEF IInv, TableInv
            <4>3. table'[x].born = table[x].born
                BY <2>1 DEF SameButParent
            <4>4. table'[y].born > table'[x].born
                BY <3>2, <4>2, <4>3
            <4>5. QED
                BY <4>4 DEF ParentOrLater
        <3>3. QED
            BY <2>3, <3>1, <3>2 DEF MachineMoves
    <2>4. QED
        BY <2>2, <2>3
<1>8. QED
    BY <1>1, <1>3, <1>4, <1>5, <1>6, <1>7 DEF RowsInv

LEMMA MachineKeepsScan ==
    ASSUME IInv, TableInv', MachineMoves, UNCHANGED scan
    PROVE  ScanInv'
<1>1. RowsInv(scan.rows)'
    BY MachineKeepsRows
<1>2. births \in Nat /\ scan.before \subseteq 1..births
    BY DEF IInv, TableInv, ScanInv
<1>3. scan.before \subseteq 1..births'
    BY <1>2 DEF MachineMoves
<1>4. ASSUME NEW x \in Alive'
      PROVE  SeenBirth(table[x].born)'
    <2>1. CASE x \in Alive /\ SameButParent(table[x], table'[x])
        BY <2>1 DEF IInv, ScanInv, SeenBirth, SameButParent
    <2>2. CASE table'[x].born = births + 1
        BY <1>2, <2>2 DEF SeenBirth
    <2>3. QED
        BY <2>1, <2>2 DEF MachineMoves
<1>5. ASSUME NEW x \in Pids, Launched(x)
      PROVE  Launched(x)'
    <2> SUFFICES ASSUME Steady(x)'
                 PROVE  table'[x].line # {} /\ ParentOf(x)' \in scan.before
        BY DEF Launched
    <2>1. Steady(x) /\ SameButParent(table[x], table'[x])
        BY SteadyLasts
    <2>2. ParentOf(x)' = ParentOf(x)
        BY <2>1 DEF SameButParent, ParentOf
    <2>3. QED
        BY <1>5, <2>1, <2>2 DEF Launched, SameButParent
<1>6. Fields' = Fields
    BY DEF Fields
<1>7. QED
    BY <1>1, <1>3, <1>4, <1>5, <1>6 DEF IInv, ScanInv

-----------------------------------------------------------------------------
(* The scan.                                                               *)

\* One more row, read now.
LEMMA RowFetched ==
    ASSUME IInv, NEW p \in Pids
    PROVE  RowsInv(RowsWith(p)) /\ RowsWith(p)[p] = RowOf(p)
<1> DEFINE rows == scan.rows
           more == RowsWith(p)
<1>1. /\ RowsInv(rows) /\ DOMAIN more = DOMAIN rows \cup {p}
      /\ \A x \in DOMAIN more : more[x] = RowOf(x)
    BY DEF IInv, ScanInv, RowsWith
<1>2. \A x \in DOMAIN rows : more[x] = rows[x]
    BY <1>1 DEF RowOf
<1>3. \A x \in Alive : table[x].image.readable
    BY DEF IInv, TableInv
<1>4. ASSUME p \notin DOMAIN rows
      PROVE  /\ p \notin Alive => more[p] = None
             /\ p \in Alive => /\ more[p].born = table[p].born /\ more[p].ppid = table[p].ppid
                               /\ more[p] # None
    <2> DEFINE name == IF p \in DOMAIN scan.names THEN scan.names[p] ELSE table[p].image.name
               row == [ppid |-> table[p].ppid, name |-> name, born |-> table[p].born]
    <2>1. more[p] = RowOf(p)
        BY <1>1
    <2>2. CASE p \notin Alive
        BY <1>4, <2>1, <2>2 DEF RowOf
    <2>3. CASE p \in Alive
        <3>1. more[p] = row
            BY <1>3, <1>4, <2>1, <2>3 DEF RowOf
        <3>2. table[p] \in Processes
            BY <2>3, ProcessFields DEF IInv
        <3>3. name \in {"claude", "node", "shell"}
            BY <3>2, ConstantsAssumption DEF IInv, ScanInv, Names, Processes, Image
        <3>4. row \in Row
            BY <3>2, <3>3, ConstantsAssumption DEF Processes, Row
        <3>5. row # None
            BY <3>4, NoneAssumption
        <3>6. QED
            BY <2>3, <3>1, <3>5
    <2>4. QED
        BY <2>2, <2>3
<1>5. DOMAIN more \subseteq Pids
    BY <1>1 DEF RowsInv
<1>6. \A x \in DOMAIN more : more[x] # None => SeenBirth(more[x].born)
    BY <1>1, <1>2, <1>4 DEF RowsInv, IInv, ScanInv
<1>7. ASSUME NEW x \in DOMAIN more, Steady(x)
      PROVE  more[x] # None /\ more[x].born = table[x].born
    <2>1. CASE x \in DOMAIN rows
        BY <1>1, <1>2, <1>7, <2>1 DEF RowsInv
    <2>2. CASE x \notin DOMAIN rows
        <3>1. x = p /\ p \in Alive
            BY <1>1, <1>7, <2>2 DEF Steady
        <3>2. QED
            BY <1>4, <2>2, <3>1
    <2>3. QED
        BY <2>1, <2>2
<1>8. ASSUME NEW x \in Pids, NEW y \in DOMAIN more, Steady(x), table[x].ppid = y, more[y] # None
      PROVE  ParentOrLater(x, more[y].born)
    <2>1. CASE y \in DOMAIN rows
        BY <1>1, <1>2, <1>8, <2>1 DEF RowsInv
    <2>2. CASE y \notin DOMAIN rows
        <3>1. y = p /\ p \in Alive /\ more[p].born = table[p].born
            BY <1>1, <1>4, <1>8, <2>2
        <3>2. QED
            BY <1>8, <3>1 DEF IInv, TableInv, Steady
    <2>3. QED
        BY <2>1, <2>2
<1>9. ASSUME NEW x \in DOMAIN more, NEW y \in Pids, Steady(x), more[x].ppid = y
      PROVE  /\ y \in Alive => ParentOrLater(x, table[y].born)
             /\ y \in DOMAIN more /\ more[y] # None => ParentOrLater(x, more[y].born)
    <2>1. CASE x \in DOMAIN rows
        <3>1. rows[x].ppid = y
            BY <1>2, <1>9, <2>1
        <3>2. y \in Alive => ParentOrLater(x, table[y].born)
            BY <1>1, <1>9, <2>1, <3>1 DEF RowsInv
        <3>3. CASE y \in DOMAIN rows
            BY <1>1, <1>2, <1>9, <2>1, <3>1, <3>2, <3>3 DEF RowsInv
        <3>4. CASE y \notin DOMAIN rows
            BY <1>1, <1>4, <3>2, <3>4
        <3>5. QED
            BY <3>2, <3>3, <3>4
    <2>2. CASE x \notin DOMAIN rows
        <3>1. x = p /\ p \in Alive /\ table[x].ppid = y
            BY <1>1, <1>4, <1>9, <2>2 DEF Steady
        <3>2. y \in Alive => ParentOrLater(x, table[y].born)
            BY <3>1 DEF IInv, TableInv
        <3>3. QED
            BY <1>5, <1>8, <1>9, <3>1, <3>2
    <2>3. QED
        BY <2>1, <2>2
<1>10. QED
    BY <1>1, <1>5, <1>6, <1>7, <1>8, <1>9 DEF RowsInv

\* A row of the parent's pid that is not younger is the parent's, and the
\* parent was there when the scan began.
LEMMA ElderIsParent ==
    ASSUME IInv, NEW x \in Pids, Steady(x), NEW b, ParentOrLater(x, b), SeenBirth(b),
           b <= table[x].born
    PROVE  table[x].line # {} /\ ParentOf(x) \in scan.before
<1>1. /\ x \in Alive /\ table[x].born \in Nat /\ table[x].line \subseteq Nat /\ b \in Nat
      /\ table[x].born \in scan.before
    BY ProcessFields DEF IInv, Steady, SeenBirth
<1>2. Parent(x, b)
    BY <1>1 DEF ParentOrLater
<1>3. ParentOf(x) = b
    BY <1>1, <1>2 DEF ParentOf, Parent
<1>4. b \in scan.before
    BY <1>1 DEF SeenBirth
<1>5. QED
    BY <1>2, <1>3, <1>4 DEF Parent

\* A step of the scan over rows that are in order: what it has to show.
LEMMA ScanMoves ==
    ASSUME IInv, UNCHANGED <<table, births>>, NEW rows, RowsInv(rows),
           scan'.before = scan.before, scan'.rows = rows, scan' = Fields', Names(scan.names)',
           scan'.todo \subseteq Pids, scan'.counted \subseteq Pids,
           scan'.step \in {"self", "parent", "walk", "ask"} => scan'.pid \in Pids,
           scan'.step = "parent" =>
              /\ scan'.pid \in DOMAIN rows /\ rows[scan'.pid] # None
              /\ scan'.at = rows[scan'.pid].ppid /\ scan'.child = rows[scan'.pid].born,
           scan'.step \in {"walk", "ask"} => Launched(scan'.pid),
           \A p \in scan'.counted : Launched(p)
    PROVE  IInv'
<1>1. Alive' = Alive /\ scan'.before = scan.before
    BY DEF Alive
<1>2. /\ \A p : Steady(p)' = Steady(p) /\ Launched(p)' = Launched(p)
      /\ \A b : SeenBirth(b)' = SeenBirth(b)
    BY <1>1 DEF Steady, Launched, ParentOf, SeenBirth
<1>3. TableInv'
    BY <1>1 DEF IInv, TableInv, ParentOrLater, Parent
<1>4. RowsInv(scan.rows)'
    BY <1>1 DEF RowsInv, Steady, SeenBirth, ParentOrLater, Parent
<1>5. (scan'.step \in {"walk", "ask"} => Launched(scan.pid)') /\ \A p \in scan'.counted : Launched(p)'
    BY <1>1 DEF Launched, Steady, ParentOf
<1>6. ScanInv'
    BY <1>1, <1>2, <1>4, <1>5 DEF IInv, ScanInv, Names
<1>7. QED
    BY <1>3, <1>6 DEF IInv

LEMMA ScanParts ==
    ASSUME IInv
    PROVE  /\ scan = Fields /\ Names(scan.names) /\ RowsInv(scan.rows)
           /\ scan.todo \subseteq Pids /\ scan.counted \subseteq Pids
           /\ \A p \in scan.counted : Launched(p)
           /\ scan.step \in {"self", "parent", "walk", "ask"} => scan.pid \in Pids
BY DEF IInv, ScanInv, Names

\* A verdict: the candidate is counted only if it was launched.
LEMMA VerdictKeeps ==
    ASSUME IInv, UNCHANGED <<table, births>>, NEW rows, RowsInv(rows), NEW isSession \in BOOLEAN,
           scan.step \in {"self", "parent", "walk", "ask"}, isSession => Launched(scan.pid),
           scan' = Judged(rows, isSession)
    PROVE  IInv'
<1>1. scan = Fields
    BY ScanParts
<1>2. /\ scan'.step = "next" /\ scan'.rows = rows /\ scan'.before = scan.before
      /\ scan'.todo = scan.todo /\ scan' = Fields' /\ scan'.names = scan.names
      /\ scan'.counted = IF isSession THEN scan.counted \cup {scan.pid} ELSE scan.counted
    BY <1>1 DEF Judged, Fields
<1>3. Names(scan.names)'
    BY <1>2, ScanParts DEF Names
<1>4. QED
    BY <1>2, <1>3, ScanParts, ScanMoves

LEMMA EnumerateKeeps ==
    ASSUME IInv, Enumerate
    PROVE  IInv'
<1>1. /\ scan' = [step |-> "next", names |-> [p \in Alive |-> table[p].image.name],
                  todo |-> {p \in Alive : table[p].image.name \in {"claude", "node"}},
                  rows |-> <<>>, counted |-> {}, pid |-> None, at |-> None, child |-> 0,
                  seen |-> {}, before |-> BirthsAlive]
      /\ UNCHANGED <<table, births>>
    BY DEF Enumerate, Rest
<1>2. Alive' = Alive /\ Alive \subseteq Pids
    BY <1>1 DEF Alive
<1>3. TableInv'
    BY <1>1, <1>2 DEF IInv, TableInv, ParentOrLater, Parent
<1>4. \A p \in Alive : /\ table[p].born \in 1..births /\ table[p].born \in BirthsAlive
                       /\ table[p].image.name \in {"claude", "node", "shell"}
    <2> SUFFICES ASSUME NEW p \in Alive
                 PROVE  /\ table[p].born \in 1..births /\ table[p].born \in BirthsAlive
                        /\ table[p].image.name \in {"claude", "node", "shell"}
        OBVIOUS
    <2>1. table[p] \in Processes /\ table[p].born <= births /\ births \in Nat
        BY ProcessFields DEF IInv, TableInv
    <2>2. QED
        BY <2>1, ConstantsAssumption DEF BirthsAlive, Processes, Image
<1>5. RowsInv(scan.rows)'
    BY <1>1, NoRows DEF RowsInv
<1>6. BirthsAlive \subseteq 1..births
    BY <1>4 DEF BirthsAlive
<1>7. \A p \in Alive' : SeenBirth(table[p].born)'
    BY <1>1, <1>2, <1>4 DEF SeenBirth
<1>8. scan' = Fields'
    BY <1>1 DEF Fields
<1>9. ScanInv'
    BY <1>1, <1>2, <1>4, <1>5, <1>6, <1>7, <1>8 DEF ScanInv, Names
<1>10. QED
    BY <1>3, <1>9 DEF IInv

LEMMA ClassifyKeeps ==
    ASSUME IInv, NEW p \in Pids, Classify(p)
    PROVE  IInv'
<1>1. scan = Fields /\ scan.step = "next" /\ UNCHANGED <<table, births>>
    BY ScanParts DEF Classify
<1>2. /\ scan' = Fields' /\ scan'.before = scan.before /\ scan'.rows = scan.rows
      /\ scan'.names = scan.names /\ scan'.counted = scan.counted
      /\ scan'.todo \subseteq scan.todo /\ scan'.step \in {"next", "self"}
      /\ scan'.step = "self" => scan'.pid = p
    BY <1>1 DEF Classify, Fields
<1>3. Names(scan.names)'
    BY <1>2, ScanParts DEF Names
<1>4. QED
    BY <1>1, <1>2, <1>3, ScanParts, ScanMoves

LEMMA FetchSelfKeeps ==
    ASSUME IInv, FetchSelf
    PROVE  IInv'
<1> DEFINE p == scan.pid
           rows == RowsWith(p)
<1>1. /\ scan = Fields /\ scan.step = "self" /\ p \in Pids /\ UNCHANGED <<table, births>>
      /\ RowsInv(rows) /\ rows[p] = RowOf(p) /\ p \in DOMAIN rows
    BY ScanParts, RowFetched DEF FetchSelf, RowsWith
<1>2. CASE RowOf(p) = None
    <2>1. scan' = Judged(rows, FALSE)
        BY <1>2 DEF FetchSelf
    <2>2. QED
        BY <1>1, <2>1, VerdictKeeps
<1>3. CASE RowOf(p) # None
    <2>1. scan' = [scan EXCEPT !.step = "parent", !.rows = rows,
                               !.at = RowOf(p).ppid, !.child = RowOf(p).born]
        BY <1>3 DEF FetchSelf
    <2>2. /\ scan' = Fields' /\ scan'.before = scan.before /\ scan'.rows = rows
          /\ scan'.names = scan.names /\ scan'.counted = scan.counted
          /\ scan'.todo = scan.todo /\ scan'.step = "parent" /\ scan'.pid = p
          /\ scan'.at = rows[p].ppid /\ scan'.child = rows[p].born
        BY <1>1, <2>1 DEF Fields
    <2>3. Names(scan.names)'
        BY <2>2, ScanParts DEF Names
    <2>4. QED
        BY <1>1, <1>3, <2>2, <2>3, ScanParts, ScanMoves
<1>4. QED
    BY <1>2, <1>3

LEMMA FetchParentKeeps ==
    ASSUME IInv, FetchParent
    PROVE  IInv'
<1> DEFINE p == scan.pid
           y == scan.at
           rows == RowsWith(y)
<1>1. /\ scan = Fields /\ scan.step = "parent" /\ p \in Pids /\ UNCHANGED <<table, births>>
      /\ RowsInv(scan.rows) /\ p \in DOMAIN scan.rows /\ scan.rows[p] # None
      /\ y = scan.rows[p].ppid /\ scan.child = scan.rows[p].born
    BY ScanParts DEF FetchParent, IInv, ScanInv
<1>2. CASE y \notin Pids
    <2>1. scan' = Judged(scan.rows, FALSE)
        BY <1>2 DEF FetchParent
    <2>2. QED
        BY <1>1, <2>1, VerdictKeeps
<1>3. CASE y \in Pids
    <2>1. /\ RowsInv(rows) /\ rows[y] = RowOf(y) /\ y \in DOMAIN rows
          /\ p \in DOMAIN rows /\ rows[p] = scan.rows[p]
        BY <1>1, <1>3, RowFetched DEF RowsWith, RowOf
    <2>2. CASE RowOf(y) = None \/ RowOf(y).born > scan.child
        <3>1. scan' = Judged(rows, FALSE)
            BY <1>3, <2>2 DEF FetchParent
        <3>2. QED
            BY <1>1, <2>1, <3>1, VerdictKeeps
    <2>3. CASE RowOf(y) # None /\ ~(RowOf(y).born > scan.child)
        <3>1. scan' = [scan EXCEPT !.step = "walk", !.rows = rows]
            BY <1>3, <2>3 DEF FetchParent
        <3>2. /\ scan' = Fields' /\ scan'.before = scan.before /\ scan'.rows = rows
              /\ scan'.names = scan.names /\ scan'.counted = scan.counted
              /\ scan'.todo = scan.todo /\ scan'.step = "walk" /\ scan'.pid = p
            BY <1>1, <3>1 DEF Fields
        <3>3. Names(scan.names)'
            BY <3>2, ScanParts DEF Names
        <3>4. ASSUME Steady(p)
              PROVE  table[p].line # {} /\ ParentOf(p) \in scan.before
            <4>1. rows[p].born = table[p].born
                BY <2>1, <3>4 DEF RowsInv
            <4>2. /\ ParentOrLater(p, rows[y].born) /\ SeenBirth(rows[y].born)
                BY <1>1, <1>3, <2>1, <2>3, <3>4 DEF RowsInv
            <4>3. table[p].born \in Nat
                BY <3>4, ProcessFields DEF IInv, Steady
            <4>4. rows[y].born <= table[p].born
                BY <1>1, <2>1, <2>3, <4>1, <4>2, <4>3 DEF SeenBirth
            <4>5. QED
                BY <1>1, <3>4, <4>2, <4>4, ElderIsParent
        <3>5. Launched(p)
            BY <3>4 DEF Launched
        <3>6. QED
            BY <1>1, <2>1, <3>2, <3>3, <3>5, ScanParts, ScanMoves
    <2>4. QED
        BY <2>2, <2>3
<1>4. QED
    BY <1>2, <1>3

\* A step of the walk that does not end it.
LEMMA FurtherKeeps ==
    ASSUME IInv, scan.step \in {"walk", "ask"}, UNCHANGED <<table, births>>,
           NEW rows, RowsInv(rows), NEW at, NEW child, NEW seen, NEW step \in {"walk", "ask"},
           scan' = [scan EXCEPT !.step = step, !.rows = rows, !.at = at,
                                !.child = child, !.seen = seen]
    PROVE  IInv'
<1>1. scan = Fields /\ scan.pid \in Pids /\ Launched(scan.pid)
    BY ScanParts DEF IInv, ScanInv
<1>2. /\ scan' = Fields' /\ scan'.before = scan.before /\ scan'.rows = rows
      /\ scan'.names = scan.names /\ scan'.counted = scan.counted
      /\ scan'.todo = scan.todo /\ scan'.step = step /\ scan'.pid = scan.pid
    BY <1>1 DEF Fields
<1>3. Names(scan.names)'
    BY <1>2, ScanParts DEF Names
<1>4. QED
    BY <1>1, <1>2, <1>3, ScanParts, ScanMoves

LEMMA WalkKeeps ==
    ASSUME IInv, Walk
    PROVE  IInv'
<1> DEFINE rows == IF GoesOn THEN RowsWith(scan.at) ELSE scan.rows
           verdict == scan' = Judged(rows, TRUE) \/ scan' = Judged(rows, FALSE)
           asking == scan' = [scan EXCEPT !.step = "ask", !.rows = rows]
           further == scan' = Climbed(rows, RowOf(scan.at).born)
<1>1. /\ scan = Fields /\ scan.step = "walk" /\ scan.pid \in Pids
      /\ Launched(scan.pid) /\ UNCHANGED <<table, births>>
    BY ScanParts DEF Walk, IInv, ScanInv
<1>2. RowsInv(rows)
    BY ScanParts, RowFetched DEF GoesOn
<1>3. verdict \/ asking \/ further
    BY DEF Walk
<1> HIDE DEF rows
<1>4. CASE verdict
    BY <1>1, <1>2, <1>4, VerdictKeeps
<1>5. CASE asking
    <2>1. scan' = [scan EXCEPT !.step = "ask", !.rows = rows, !.at = scan.at,
                               !.child = scan.child, !.seen = scan.seen]
        BY <1>1, <1>5 DEF Fields
    <2>2. QED
        BY <1>1, <1>2, <2>1, FurtherKeeps
<1>6. CASE further
    BY <1>1, <1>2, <1>6, FurtherKeeps DEF Climbed
<1>7. QED
    BY <1>3, <1>4, <1>5, <1>6

LEMMA AskKeeps ==
    ASSUME IInv, Ask
    PROVE  IInv'
<1>1. /\ scan.step = "ask" /\ Launched(scan.pid) /\ RowsInv(scan.rows)
      /\ UNCHANGED <<table, births>>
    BY DEF Ask, IInv, ScanInv
<1>2. CASE scan' = Judged(scan.rows, FALSE)
    BY <1>1, <1>2, VerdictKeeps
<1>3. CASE scan' = Climbed(scan.rows, scan.rows[scan.at].born)
    BY <1>1, <1>3, FurtherKeeps DEF Climbed
<1>4. QED
    BY <1>2, <1>3 DEF Ask

LEMMA EndKeeps ==
    ASSUME IInv, Finish \/ Report
    PROVE  IInv'
<1>1. RowsInv(<<>>)
    BY NoRows DEF RowsInv
<1>2. CASE Finish
    <2>1. scan = Fields /\ UNCHANGED <<table, births>>
        BY <1>2, ScanParts DEF Finish
    <2>2. /\ scan' = Fields' /\ scan'.before = scan.before /\ scan'.rows = <<>>
          /\ scan'.names = <<>> /\ scan'.counted = scan.counted
          /\ scan'.todo = scan.todo /\ scan'.step = "done"
        BY <1>2, <2>1 DEF Finish, Fields
    <2>3. Names(scan.names)'
        BY <2>2, NoRows DEF Names
    <2>4. QED
        BY <1>1, <2>1, <2>2, <2>3, ScanParts, ScanMoves
<1>3. CASE Report
    <2>1. scan' = Rest /\ UNCHANGED <<table, births>>
        BY <1>3 DEF Report
    <2>2. TableInv' /\ Alive' = Alive
        BY <2>1 DEF IInv, TableInv, Alive, ParentOrLater, Parent
    <2>3. RowsInv(scan.rows)'
        BY <2>1, NoRows DEF Rest, RowsInv
    <2>4. \A p \in Alive : table[p].born \in Nat
        BY ProcessFields DEF IInv
    <2>5. ScanInv'
        BY <2>1, <2>2, <2>3, <2>4, NoRows DEF Rest, ScanInv, Names, Fields, SeenBirth
    <2>6. QED
        BY <2>2, <2>5 DEF IInv
<1>4. QED
    BY <1>2, <1>3

-----------------------------------------------------------------------------

LEMMA NextKeeps ==
    ASSUME IInv, AllReadable, [Next]_vars
    PROVE  IInv'
<1>1. ASSUME NEW p \in Pids, NEW parent \in Alive \cup {Host}, NEW image \in Images,
             Launch(p, parent, image)
      PROVE  IInv'
    <2>1. TableInv' /\ MachineMoves /\ UNCHANGED scan
        BY <1>1, LaunchKeepsTable, LaunchMoves DEF IInv, Launch
    <2>2. QED
        BY <2>1, MachineKeepsScan DEF IInv
<1>2. ASSUME NEW p \in Pids, Exit(p)
      PROVE  IInv'
    <2>1. TableInv' /\ MachineMoves /\ UNCHANGED scan
        BY <1>2, ExitKeepsTable, ExitMoves DEF IInv, Exit
    <2>2. QED
        BY <2>1, MachineKeepsScan DEF IInv
<1>3. ASSUME ScanStep
      PROVE  IInv'
    BY <1>3, EnumerateKeeps, ClassifyKeeps, FetchSelfKeeps, FetchParentKeeps, WalkKeeps,
       AskKeeps, EndKeeps
       DEF ScanStep
<1>4. ASSUME UNCHANGED vars
      PROVE  IInv'
    <2>1. UNCHANGED <<table, births, scan>> /\ Alive' = Alive
        BY <1>4 DEF vars, Alive
    <2>2. QED
        BY <1>4, <2>1 DEF IInv, TableInv, ScanInv, Names, Fields, RowsInv, Steady, SeenBirth, Launched,
                          ParentOf, ParentOrLater, Parent
<1>5. QED
    BY <1>1, <1>2, <1>3, <1>4 DEF Next

\* An agent whose parent was dead when the scan began is never counted, even
\* if the parent's pid was taken over before the scan or during it: of
\* _is_excluded_by_tree (sessions.py), where psutil may read every process.
THEOREM OrphansCorrect == AllReadable /\ Spec => []OrphansAreNotCounted
<1> SUFFICES ASSUME AllReadable
             PROVE  Spec => []OrphansAreNotCounted
    OBVIOUS
<1>1. IInv => OrphansAreNotCounted
    BY ScanParts DEF OrphansAreNotCounted, Launched
<1>2. IInv /\ [Next]_vars => IInv'
    BY NextKeeps
<1>3. QED
    BY InitHolds, <1>1, <1>2, PTL DEF Spec

-----------------------------------------------------------------------------
(* The processes a candidate descends from.                                *)

\* What is true of an ancestor y of x.
IsAncestor(x, y) ==
    /\ table[y].line = {b \in table[x].line : b < table[y].born}
    /\ table[y].image.name = "node" => table[y].born \in table[x].nodes
    /\ table[y].born = table[x].spawner => IsAgentRuntime(table[y].image)
    /\ table[y].born > table[x].spawner => ~IsAgentRuntime(table[y].image)
    /\ Parent(x, table[y].born) => table[x].ppid = y

TreeInv ==
    /\ births <= MaxBirths
    /\ \A x, y \in Alive : table[x].born = table[y].born => x = y
    /\ \A x \in Alive : /\ table[x].nodes \subseteq table[x].line
                        /\ table[x].spawner # 0 => table[x].spawner \in table[x].line
                        /\ table[x].line # {} => \E b \in table[x].line : Parent(x, b)
    /\ \A x, y \in Alive : table[y].born \in table[x].line => IsAncestor(x, y)

\* b is an ancestor of p, or younger than its descendant c.
LineOrLater(p, b, c) == b \in table[p].line \/ b > c

\* Whoever has the pid y, by the table or by the rows.
Whoever(rows, y, p, c) ==
    y \in Pids =>
        /\ y \in Alive => LineOrLater(p, table[y].born, c)
        /\ y \in DOMAIN rows /\ rows[y] # None => LineOrLater(p, rows[y].born, c)

\* What the row of an ancestor of p says.
AncestorRow(rows, p, x) ==
    /\ table[p].spawner = 0 => rows[x].name # "claude"
    /\ rows[x].name = "node" => rows[x].born \in table[p].nodes
    /\ Whoever(rows, rows[x].ppid, p, rows[x].born)

\* Rows tell one process from another, and are true of those that last.
RowTruth(rows) ==
    /\ \A x \in DOMAIN rows : rows[x] \in Row \cup {None}
    /\ \A x \in DOMAIN rows : rows[x] # None => rows[x].born <= births
    /\ \A x \in DOMAIN rows, z \in Alive :
          rows[x] # None /\ table[z].born = rows[x].born => z = x
    /\ \A x \in DOMAIN rows : Steady(x) => rows[x].name = table[x].image.name
    /\ \A x \in DOMAIN rows, y \in Alive :
          Steady(x) /\ Parent(x, table[y].born) => rows[x].ppid = y
    /\ \A p \in Pids, x \in DOMAIN rows :
          Steady(p) /\ rows[x] # None /\ rows[x].born \in table[p].line => AncestorRow(rows, p, x)

\* Of the record sc of a scan: its fields,
Steps == {"idle", "next", "self", "parent", "walk", "ask", "done"}
Candidate == {"self", "parent", "walk", "ask"}

ShapeOf(sc) ==
    /\ sc.step \in Steps
    /\ sc.seen \subseteq Pids
    /\ sc.step \in {"next", "self", "parent"} => sc.seen = {}
    /\ sc.step = "done" => sc.todo = {}
    /\ sc.step \notin {"idle", "done"} =>
          \A x \in Pids : Steady(x) => x \in DOMAIN sc.names /\ sc.names[x] = table[x].image.name
    /\ sc.step = "ask" => /\ sc.at \in DOMAIN sc.rows /\ sc.rows[sc.at] # None
                          /\ sc.rows[sc.at].name = "node"

\* its helpers, and where the walk from one is,
Tied(p) ==
    /\ Steady(p) /\ table[p].spawner # 0
    /\ Cardinality(Chain(p)) <= WalkLimit /\ Chain(p) \subseteq BirthsAlive

InChain(x, p) == x \in Alive /\ table[x].born \in Chain(p)

HelpersOf(sc) ==
    /\ \A p \in sc.counted : ~Tied(p)
    /\ sc.step \in {"walk", "ask"} /\ Tied(sc.pid) =>
          /\ InChain(sc.at, sc.pid) /\ sc.child \in Nat /\ table[sc.at].born < sc.child
          /\ \A x \in sc.seen : InChain(x, sc.pid) /\ table[x].born > table[sc.at].born

\* and its sessions, and where the walk from one is.
Good(p) == HasItsShell(p) /\ table[p].nodes \subseteq BirthsAlive

Found(sc) == sc.todo \cup sc.counted \cup (IF sc.step \in Candidate THEN {sc.pid} ELSE {})

SessionsOf(sc) ==
    /\ sc.step # "idle" => \A p \in Pids : Good(p) => p \in Found(sc)
    /\ sc.step \in {"walk", "ask"} /\ Good(sc.pid) =>
          /\ sc.child \in Nat /\ sc.child <= births
          /\ Whoever(sc.rows, sc.at, sc.pid, sc.child)
    /\ sc.step = "ask" /\ Good(sc.pid) => sc.rows[sc.at].born \in table[sc.pid].line

Facts(sc) == ShapeOf(sc) /\ HelpersOf(sc) /\ SessionsOf(sc)

JInv == IInv /\ TreeInv /\ RowTruth(scan.rows) /\ Facts(scan)

-----------------------------------------------------------------------------
(* The machine.                                                            *)

LEMMA LineIsNat ==
    ASSUME TableInv, TreeInv, NEW x \in Alive
    PROVE  /\ table[x].born \in Nat \ {0} /\ table[x].born <= births /\ births \in Nat
           /\ table[x].spawner \in Nat
           /\ \A b \in table[x].line : b \in Nat \ {0} /\ b < table[x].born
           /\ table[x].nodes \subseteq table[x].line
           /\ table[x].spawner # 0 => table[x].spawner \in table[x].line
<1>1. table[x] \in Processes /\ table[x].born <= births
    BY ProcessFields DEF TableInv
<1>2. /\ table[x].born \in 1..MaxBirths /\ table[x].line \subseteq 1..MaxBirths
      /\ table[x].spawner \in 0..MaxBirths
    BY <1>1 DEF Processes
<1>3. QED
    BY <1>1, <1>2, ConstantsAssumption DEF TableInv, TreeInv

LEMMA LaunchKeepsTree ==
    ASSUME TableInv, TreeInv, NEW p \in Pids, NEW parent \in Alive \cup {Host},
           NEW image \in Images, Launch(p, parent, image)
    PROVE  TreeInv'
<1> DEFINE new == Newborn(parent, image)
<1>1. /\ births' = births + 1 /\ births < MaxBirths /\ births \in Nat /\ MaxBirths \in Nat
      /\ table'[p] = new
    BY LaunchChanges, ConstantsAssumption
<1>2. /\ p \notin Alive /\ Alive' = Alive \cup {p}
      /\ \A q \in Alive : table'[q] = table[q] /\ q # p
    BY LaunchChanges
<1>3. parent # Host => parent \in Alive /\ parent # p
    BY <1>2
<1>4. /\ new.born = births + 1 /\ new.ppid = parent
      /\ new.line = (IF parent = Host THEN {} ELSE table[parent].line \cup {table[parent].born})
      /\ new.nodes = (IF parent = Host THEN {}
                      ELSE IF table[parent].image.name = "node"
                           THEN table[parent].nodes \cup {table[parent].born}
                           ELSE table[parent].nodes)
      /\ new.spawner = (IF parent = Host THEN 0
                        ELSE IF IsAgentRuntime(table[parent].image)
                             THEN table[parent].born ELSE table[parent].spawner)
    BY DEF Newborn
<1> HIDE DEF new
<1>5. \A q \in Alive : /\ table[q].born \in Nat \ {0} /\ table[q].born <= births
                       /\ table[q].spawner \in Nat
                       /\ \A b \in table[q].line : b \in Nat \ {0} /\ b < table[q].born
                       /\ table[q].nodes \subseteq table[q].line
                       /\ table[q].spawner # 0 => table[q].spawner \in table[q].line
    BY LineIsNat
<1>6. births' <= MaxBirths
    BY <1>1
<1>7. \A x, y \in Alive' : table'[x].born = table'[y].born => x = y
    BY <1>1, <1>2, <1>4, <1>5 DEF TreeInv
<1>8. /\ new.nodes \subseteq new.line
      /\ new.spawner # 0 => new.spawner \in new.line
    BY <1>3, <1>4, <1>5
<1>9. \A x \in Alive' : /\ table'[x].nodes \subseteq table'[x].line
                        /\ table'[x].spawner # 0 => table'[x].spawner \in table'[x].line
    BY <1>1, <1>2, <1>5, <1>8
<1>12. ASSUME NEW x \in Alive', table'[x].line # {}
       PROVE  \E b \in table'[x].line : Parent(x, b)'
    <2>1. CASE x = p
        <3>1. /\ parent # Host /\ parent \in Alive /\ table[parent].born \in new.line
              /\ \A c \in new.line : c <= table[parent].born
            BY <1>1, <1>3, <1>4, <1>5, <1>12, <2>1
        <3>2. QED
            BY <1>1, <2>1, <3>1 DEF Parent
    <2>2. CASE x # p
        <3>1. x \in Alive /\ table'[x] = table[x]
            BY <1>2, <2>2
        <3>2. QED
            BY <1>12, <3>1 DEF TreeInv, Parent
    <2>3. QED
        BY <2>1, <2>2
<1>10. ASSUME NEW x \in Alive, NEW y \in Alive', table'[y].born \in table'[x].line
       PROVE  IsAncestor(x, y)'
    <2>1. table'[x] = table[x]
        BY <1>2
    <2>2. y # p
        BY <1>1, <1>2, <1>4, <1>5, <1>10, <2>1
    <2>3. y \in Alive /\ table'[y] = table[y]
        BY <1>2, <2>2
    <2>4. IsAncestor(x, y)
        BY <1>10, <2>1, <2>3 DEF TreeInv
    <2>5. QED
        BY <2>1, <2>3, <2>4 DEF IsAncestor, Parent
<1>11. ASSUME NEW y \in Alive', table'[y].born \in new.line
       PROVE  IsAncestor(p, y)'
    <2>1. parent # Host /\ parent \in Alive /\ parent # p
        BY <1>3, <1>4, <1>11
    <2>2. y # p
        BY <1>1, <1>4, <1>5, <1>11, <2>1
    <2>3. y \in Alive /\ table'[y] = table[y]
        BY <1>2, <2>2
    <2> DEFINE q == parent
    <2>4. /\ table[q].born \in Nat \ {0} /\ table[q].spawner \in Nat
          /\ \A b \in table[q].line : b \in Nat \ {0} /\ b < table[q].born
          /\ table[q].spawner # 0 => table[q].spawner \in table[q].line
        BY <1>5, <2>1
    <2>5. CASE table[y].born = table[q].born
        <3>1. y = q
            BY <2>1, <2>3, <2>5 DEF TreeInv
        <3>2. table[q].line = {b \in new.line : b < table[q].born}
            BY <1>4, <2>1, <2>4
        <3>3. table[q].image.name = "node" => table[q].born \in new.nodes
            BY <1>4, <2>1
        <3>4. /\ table[q].born = new.spawner => IsAgentRuntime(table[q].image)
              /\ table[q].born > new.spawner => ~IsAgentRuntime(table[q].image)
            BY <1>4, <2>1, <2>4
        <3>5. QED
            BY <1>1, <1>4, <2>3, <3>1, <3>2, <3>3, <3>4 DEF IsAncestor
    <2>6. CASE table[y].born # table[q].born
        <3>1. table[y].born \in table[q].line /\ table[y].born < table[q].born
            BY <1>4, <1>11, <2>1, <2>3, <2>4, <2>6
        <3>2. IsAncestor(q, y)
            BY <2>1, <2>3, <3>1 DEF TreeInv
        <3>3. table[y].line = {b \in new.line : b < table[y].born}
            BY <1>4, <2>1, <2>4, <3>1, <3>2 DEF IsAncestor
        <3>4. table[y].image.name = "node" => table[y].born \in new.nodes
            BY <1>4, <2>1, <3>2 DEF IsAncestor
        <3>5. /\ table[y].born = new.spawner => IsAgentRuntime(table[y].image)
              /\ table[y].born > new.spawner => ~IsAgentRuntime(table[y].image)
            BY <1>4, <2>1, <2>4, <3>1, <3>2 DEF IsAncestor
        <3>6. ~(\A c \in new.line : c <= table[y].born)
            BY <1>4, <2>1, <2>4, <3>1
        <3>7. QED
            BY <1>1, <2>3, <3>3, <3>4, <3>5, <3>6 DEF IsAncestor, Parent
    <2>7. QED
        BY <2>5, <2>6
<1>13. QED
    BY <1>1, <1>2, <1>6, <1>7, <1>9, <1>10, <1>11, <1>12 DEF TreeInv

LEMMA ExitKeepsTree ==
    ASSUME TableInv, TreeInv, NEW p \in Pids, Exit(p)
    PROVE  TreeInv'
<1>1. Alive' = Alive \ {p} /\ births' = births
    BY ExitChanges
<1>2. \A q \in Alive' : SameButParent(table[q], table'[q])
    BY ExitChanges
<1>3. \A q \in Alive' : table[q].ppid # p => table'[q] = table[q]
    BY ExitChanges
<1>4. ASSUME NEW x \in Alive', NEW y \in Alive', table'[y].born \in table'[x].line
      PROVE  IsAncestor(x, y)'
    <2>1. /\ x \in Alive /\ y \in Alive /\ y # p
          /\ SameButParent(table[x], table'[x]) /\ SameButParent(table[y], table'[y])
        BY <1>1, <1>2
    <2>2. IsAncestor(x, y)
        BY <1>4, <2>1 DEF TreeInv, SameButParent
    <2>3. Parent(x, table[y].born) => table'[x].ppid = y
        BY <1>3, <2>1, <2>2 DEF IsAncestor
    <2>4. QED
        BY <2>1, <2>2, <2>3 DEF IsAncestor, SameButParent, Parent
<1>5. \A x \in Alive' : table'[x].line # {} => \E b \in table'[x].line : Parent(x, b)'
    BY <1>1, <1>2 DEF TreeInv, SameButParent, Parent
<1>6. QED
    BY <1>1, <1>2, <1>4, <1>5 DEF TreeInv, SameButParent

\* A process that has ancestors has a parent, the youngest of them.
LEMMA YoungestOfLine ==
    ASSUME TreeInv, NEW x \in Alive, table[x].line # {}
    PROVE  ParentOf(x) \in table[x].line /\ Parent(x, ParentOf(x))
BY DEF TreeInv, ParentOf, Parent

-----------------------------------------------------------------------------
(* What a step of the machine leaves of what the scan knows.               *)

\* A birth of an ancestor that is alive after the step was so before.
LEMMA AncestorsLast ==
    ASSUME JInv, TableInv', MachineMoves, UNCHANGED scan, NEW x \in Pids, Steady(x)'
    PROVE  /\ Steady(x) /\ x \in Alive /\ x \in Alive' /\ SameButParent(table[x], table'[x])
           /\ \A z \in Alive' : table'[z].born \in table[x].line =>
                 z \in Alive /\ SameButParent(table[z], table'[z])
           /\ \A b \in table[x].line : b \in BirthsAlive' =>
                 \A z \in Alive : table[z].born = b => z \in Alive' /\ SameButParent(table[z], table'[z])
           /\ \A b \in table[x].line : b \in BirthsAlive' => b \in BirthsAlive
<1>1. Steady(x) /\ SameButParent(table[x], table'[x])
    BY SteadyLasts DEF JInv
<1>2. x \in Alive /\ x \in Alive'
    BY <1>1 DEF Steady
<1>3. /\ births \in Nat /\ table[x].born <= births /\ table[x].born \in Nat
      /\ \A b \in table[x].line : b \in Nat /\ b < table[x].born
    BY <1>2, LineIsNat DEF JInv, IInv
<1>4. ASSUME NEW z \in Alive', table'[z].born \in table[x].line
      PROVE  z \in Alive /\ SameButParent(table[z], table'[z])
    <2>1. table'[z].born # births + 1
        BY <1>3, <1>4
    <2>2. QED
        BY <1>4, <2>1 DEF MachineMoves
<1>5. ASSUME NEW b \in table[x].line, b \in BirthsAlive', NEW z \in Alive, table[z].born = b
      PROVE  z \in Alive' /\ SameButParent(table[z], table'[z])
    <2>1. PICK w \in Alive' : table'[w].born = b
        BY <1>5 DEF BirthsAlive
    <2>2. w \in Alive /\ SameButParent(table[w], table'[w])
        BY <1>4, <1>5, <2>1
    <2>3. w = z
        BY <1>5, <2>1, <2>2 DEF SameButParent, JInv, TreeInv
    <2>4. QED
        BY <2>1, <2>2, <2>3
<1>6. ASSUME NEW b \in table[x].line, b \in BirthsAlive'
      PROVE  b \in BirthsAlive
    <2>1. PICK w \in Alive' : table'[w].born = b
        BY <1>6 DEF BirthsAlive
    <2>2. w \in Alive /\ SameButParent(table[w], table'[w])
        BY <1>4, <1>6, <2>1
    <2>3. QED
        BY <2>1, <2>2 DEF SameButParent, BirthsAlive
<1>7. QED
    BY <1>1, <1>2, <1>4, <1>5, <1>6

LEMMA MachineKeepsTruth ==
    ASSUME JInv, TableInv', MachineMoves, UNCHANGED scan
    PROVE  RowTruth(scan.rows)'
<1> DEFINE rows == scan.rows
<1>1. RowTruth(rows) /\ rows' = rows /\ births \in Nat /\ births' \in {births, births + 1}
      /\ DOMAIN rows \subseteq Pids
    BY DEF JInv, IInv, TableInv, ScanInv, RowsInv, MachineMoves
<1>2. \A x \in DOMAIN rows : rows[x] # None => rows[x].born \in Nat /\ rows[x].born <= births
    BY <1>1, ConstantsAssumption DEF RowTruth, Row
<1>3. \A x \in Pids : Steady(x)' => Steady(x) /\ SameButParent(table[x], table'[x])
    BY SteadyLasts DEF JInv
<1>4. \A x \in DOMAIN rows : rows[x] # None => rows[x].born <= births'
    BY <1>1, <1>2
<1>5. ASSUME NEW x \in DOMAIN rows, NEW z \in Alive', rows[x] # None, table'[z].born = rows[x].born
      PROVE  z = x
    <2>1. table'[z].born # births + 1
        BY <1>1, <1>2, <1>5
    <2>2. z \in Alive /\ table[z].born = rows[x].born
        BY <1>5, <2>1 DEF MachineMoves, SameButParent
    <2>3. QED
        BY <1>1, <1>5, <2>2 DEF RowTruth
<1>6. \A x \in DOMAIN rows : Steady(x)' => rows[x].name = table'[x].image.name
    BY <1>1, <1>3 DEF RowTruth, SameButParent
<1>7. ASSUME NEW x \in DOMAIN rows, NEW y \in Alive', Steady(x)', Parent(x, table[y].born)'
      PROVE  rows[x].ppid = y
    <2>1. Steady(x) /\ SameButParent(table[x], table'[x])
        BY <1>1, <1>3, <1>7
    <2>2. table'[y].born \in table[x].line
        BY <1>7, <2>1 DEF Parent, SameButParent
    <2>3. y \in Alive /\ SameButParent(table[y], table'[y])
        BY <1>1, <1>7, <2>2, AncestorsLast
    <2>4. Parent(x, table[y].born)
        BY <1>7, <2>1, <2>3 DEF Parent, SameButParent
    <2>5. QED
        BY <1>1, <2>1, <2>3, <2>4 DEF RowTruth
<1>8. ASSUME NEW p \in Pids, NEW x \in DOMAIN rows, Steady(p)', rows[x] # None,
             rows[x].born \in table'[p].line
      PROVE  AncestorRow(rows, p, x)'
    <2>1. Steady(p) /\ SameButParent(table[p], table'[p])
        BY <1>3, <1>8
    <2>2. AncestorRow(rows, p, x)
        BY <1>1, <1>8, <2>1 DEF RowTruth, SameButParent
    <2>3. ASSUME NEW y \in Pids, y = rows[x].ppid, y \in Alive'
          PROVE  LineOrLater(p, table[y].born, rows[x].born)'
        <3>1. CASE y \in Alive /\ SameButParent(table[y], table'[y])
            BY <2>1, <2>2, <2>3, <3>1 DEF AncestorRow, Whoever, LineOrLater, SameButParent
        <3>2. CASE table'[y].born = births + 1
            BY <1>1, <1>2, <1>8, <3>2 DEF LineOrLater
        <3>3. QED
            BY <2>3, <3>1, <3>2 DEF MachineMoves
    <2>4. Whoever(rows, rows[x].ppid, p, rows[x].born)'
        BY <1>1, <2>1, <2>2, <2>3 DEF AncestorRow, Whoever, LineOrLater, SameButParent
    <2>5. QED
        BY <1>1, <2>1, <2>2, <2>4 DEF AncestorRow, SameButParent
<1>9. \A x \in DOMAIN rows : rows[x] \in Row \cup {None}
    BY <1>1 DEF RowTruth
<1>10. QED
    BY <1>1, <1>4, <1>5, <1>6, <1>7, <1>8, <1>9 DEF RowTruth

\* What a candidate is stays, and what is the case of it was.
LEMMA CandidatesLast ==
    ASSUME JInv, TableInv', MachineMoves, UNCHANGED scan, NEW p \in Pids
    PROVE  /\ Tied(p)' => Tied(p)
           /\ Good(p)' => Good(p)
<1>1. ASSUME Steady(p)'
      PROVE  /\ Steady(p) /\ SameButParent(table[p], table'[p]) /\ p \in Alive
             /\ \A b \in table[p].line : b \in BirthsAlive' => b \in BirthsAlive
             /\ table[p].nodes \subseteq table[p].line
    BY <1>1, AncestorsLast DEF JInv, TreeInv
<1>2. ASSUME Tied(p)'
      PROVE  Tied(p)
    BY <1>1, <1>2 DEF Tied, Chain, SameButParent
<1>3. ASSUME Good(p)'
      PROVE  Good(p)
    <2>1. /\ Steady(p) /\ SameButParent(table[p], table'[p]) /\ p \in Alive
          /\ \A b \in table[p].line : b \in BirthsAlive' => b \in BirthsAlive
          /\ table[p].nodes \subseteq table[p].line
        BY <1>1, <1>3 DEF Good, HasItsShell
    <2>2. IsSession(p) /\ table[p].line # {} /\ table[p].nodes \subseteq BirthsAlive
        BY <1>3, <2>1 DEF Good, HasItsShell, IsSession, SameButParent
    <2>3. ParentOf(p)' = ParentOf(p) /\ ParentOf(p)' \in BirthsAlive'
        BY <1>3, <2>1 DEF Good, HasItsShell, ParentOf, SameButParent
    <2>4. ParentOf(p) \in table[p].line
        BY <2>1, <2>2, YoungestOfLine DEF JInv, IInv
    <2>5. QED
        BY <2>1, <2>2, <2>3, <2>4 DEF Good, HasItsShell
<1>4. QED
    BY <1>2, <1>3

LEMMA MachineKeepsFacts ==
    ASSUME JInv, TableInv', MachineMoves, UNCHANGED scan
    PROVE  Facts(scan)'
<1>1. \A x \in Pids : Steady(x)' => Steady(x) /\ SameButParent(table[x], table'[x])
    BY SteadyLasts DEF JInv
<1>2. births \in Nat /\ births' \in {births, births + 1} /\ scan' = scan
    BY DEF JInv, IInv, TableInv, MachineMoves
<1>3. ShapeOf(scan)'
    BY <1>1, <1>2 DEF JInv, Facts, ShapeOf, SameButParent
<1>4. scan.step \in Candidate => scan.pid \in Pids
    BY ScanParts DEF JInv, Candidate
<1>5. /\ scan.counted \subseteq Pids
      /\ \A p \in Pids : (Tied(p)' => Tied(p)) /\ (Good(p)' => Good(p))
    BY ScanParts, CandidatesLast DEF JInv
<1>6. HelpersOf(scan)'
    <2>1. HelpersOf(scan)
        BY DEF JInv, Facts
    <2>2. \A p \in scan.counted : ~Tied(p)'
        BY <1>5, <2>1 DEF HelpersOf
    <2>3. ASSUME scan.step \in {"walk", "ask"}, Tied(scan.pid)'
          PROVE  /\ InChain(scan.at, scan.pid)' /\ scan.child \in Nat
                 /\ table'[scan.at].born < scan.child
                 /\ \A x \in scan.seen :
                       InChain(x, scan.pid)' /\ table'[x].born > table'[scan.at].born
        <3> DEFINE p == scan.pid
        <3>1. p \in Pids /\ Tied(p) /\ Steady(p)'
            BY <1>4, <1>5, <2>3 DEF Candidate, Tied
        <3>2. Steady(p) /\ SameButParent(table[p], table'[p]) /\ Chain(p) \subseteq BirthsAlive'
            BY <1>1, <2>3, <3>1 DEF Tied, Chain, SameButParent
        <3>3. \A x : InChain(x, p) => x \in Alive' /\ SameButParent(table[x], table'[x])
            BY <3>1, <3>2, AncestorsLast DEF InChain, Chain
        <3>4. \A x : InChain(x, p) => InChain(x, p)' /\ table'[x].born = table[x].born
            BY <1>2, <3>2, <3>3 DEF InChain, Chain, SameButParent
        <3>5. QED
            BY <2>1, <2>3, <3>1, <3>4 DEF HelpersOf
    <2>4. QED
        BY <1>2, <2>2, <2>3 DEF HelpersOf
<1>7. SessionsOf(scan)'
    <2>1. SessionsOf(scan)
        BY DEF JInv, Facts
    <2>2. scan.step # "idle" => \A p \in Pids : Good(p)' => p \in Found(scan)
        BY <1>5, <2>1 DEF SessionsOf
    <2>3. ASSUME scan.step \in {"walk", "ask"}, Good(scan.pid)'
          PROVE  /\ scan.child \in Nat /\ scan.child <= births'
                 /\ Whoever(scan.rows, scan.at, scan.pid, scan.child)'
                 /\ scan.step = "ask" => scan.rows[scan.at].born \in table'[scan.pid].line
        <3> DEFINE p == scan.pid
        <3>1. p \in Pids /\ Good(p) /\ SameButParent(table[p], table'[p])
            BY <1>1, <1>4, <1>5, <2>3 DEF Candidate, Good, HasItsShell
        <3>2. /\ scan.child \in Nat /\ scan.child <= births
              /\ Whoever(scan.rows, scan.at, p, scan.child)
              /\ scan.step = "ask" => scan.rows[scan.at].born \in table[p].line
            BY <2>1, <2>3, <3>1 DEF SessionsOf
        <3>3. ASSUME scan.at \in Alive', scan.at \in Pids
              PROVE  LineOrLater(p, table[scan.at].born, scan.child)'
            <4>1. CASE scan.at \in Alive /\ SameButParent(table[scan.at], table'[scan.at])
                BY <1>2, <3>1, <3>2, <3>3, <4>1 DEF Whoever, LineOrLater, SameButParent
            <4>2. CASE table'[scan.at].born = births + 1
                BY <1>2, <3>2, <4>2 DEF LineOrLater
            <4>3. QED
                BY <3>3, <4>1, <4>2 DEF MachineMoves
        <3>4. Whoever(scan.rows, scan.at, p, scan.child)'
            BY <1>2, <3>1, <3>2, <3>3 DEF Whoever, LineOrLater, SameButParent
        <3>5. QED
            BY <1>2, <3>1, <3>2, <3>4 DEF SameButParent
    <2>4. QED
        BY <1>2, <2>2, <2>3 DEF SessionsOf, Found
<1>8. QED
    BY <1>3, <1>6, <1>7 DEF Facts

-----------------------------------------------------------------------------
(* The scan.                                                               *)

\* Whose birth is on the line of a process there all along was there too.
LEMMA AncestorsAreSteady ==
    ASSUME JInv, NEW p \in Pids, Steady(p), NEW y \in Alive, table[y].born \in table[p].line
    PROVE  Steady(y)
<1>1. p \in Alive /\ table[p].born \in scan.before /\ scan.before \subseteq 1..births
      /\ SeenBirth(table[y].born) /\ births \in Nat
    BY DEF Steady, JInv, IInv, ScanInv, TableInv
<1>2. table[y].born \in Nat /\ table[y].born < table[p].born /\ table[p].born \in Nat
    BY <1>1, LineIsNat DEF JInv, IInv
<1>3. QED
    BY <1>1, <1>2 DEF SeenBirth, Steady

LEMMA RowsStayTrue ==
    ASSUME JInv, scan.step \in Candidate, NEW y \in Pids
    PROVE  RowTruth(RowsWith(y))
<1> DEFINE rows == scan.rows
           more == RowsWith(y)
<1>1. /\ RowTruth(rows) /\ RowsInv(rows) /\ TableInv /\ TreeInv /\ Names(scan.names)
      /\ DOMAIN more = DOMAIN rows \cup {y}
      /\ \A x \in DOMAIN rows : more[x] = rows[x]
      /\ DOMAIN rows \subseteq Pids
    BY DEF JInv, IInv, ScanInv, RowsWith, RowOf, RowsInv
<1>2. ASSUME y \notin DOMAIN rows
      PROVE  /\ more[y] # None => y \in Alive
             /\ y \in Alive => /\ more[y] # None /\ more[y] \in Row
                               /\ more[y].ppid = table[y].ppid /\ more[y].born = table[y].born
                               /\ Steady(y) => more[y].name = table[y].image.name
    <2>1. more[y] = RowOf(y)
        BY DEF RowsWith
    <2>2. y \notin Alive => more[y] = None
        BY <1>2, <2>1 DEF RowOf
    <2>3. ASSUME y \in Alive
          PROVE  /\ more[y] # None /\ more[y] \in Row
                 /\ more[y].ppid = table[y].ppid /\ more[y].born = table[y].born
                 /\ Steady(y) => more[y].name = table[y].image.name
        <3> DEFINE name == IF y \in DOMAIN scan.names THEN scan.names[y] ELSE table[y].image.name
        <3>1. more[y] = [ppid |-> table[y].ppid, name |-> name, born |-> table[y].born]
            BY <1>1, <1>2, <2>1, <2>3 DEF RowOf, TableInv
        <3>2. /\ table[y].ppid \in Pids \cup {Host} /\ table[y].born \in 1..MaxBirths
              /\ table[y].image.name \in {"claude", "node", "shell"}
            BY <1>1, <2>3, ProcessFields, ConstantsAssumption DEF Processes, Image
        <3>3. name \in {"claude", "node", "shell"}
            BY <1>1, <3>2 DEF Names
        <3>4. Steady(y) => name = table[y].image.name
            BY DEF JInv, Facts, ShapeOf, Candidate
        <3> HIDE DEF name
        <3>5. more[y] \in Row
            BY <3>1, <3>2, <3>3, ConstantsAssumption DEF Row
        <3>6. QED
            BY <3>1, <3>4, <3>5, NoneAssumption
    <2>4. QED
        BY <2>2, <2>3
<1> HIDE DEF more
<1>3. \A x \in DOMAIN more : more[x] \in Row \cup {None}
    <2>1. CASE y \in DOMAIN rows
        BY <1>1, <2>1 DEF RowTruth
    <2>2. CASE y \notin DOMAIN rows
        BY <1>1, <1>2, <2>2 DEF RowTruth
    <2>3. QED
        BY <2>1, <2>2
<1>4. \A x \in DOMAIN more : more[x] # None => more[x].born <= births
    BY <1>1, <1>2 DEF RowTruth, TableInv
<1>5. \A x \in DOMAIN more, z \in Alive :
         more[x] # None /\ table[z].born = more[x].born => z = x
    BY <1>1, <1>2 DEF RowTruth, TreeInv
<1>6. \A x \in DOMAIN more : Steady(x) => more[x].name = table[x].image.name
    BY <1>1, <1>2 DEF RowTruth, Steady
<1>7. ASSUME NEW x \in DOMAIN more, NEW z \in Alive, Steady(x), Parent(x, table[z].born)
      PROVE  more[x].ppid = z
    <2>1. CASE x \in DOMAIN rows
        BY <1>1, <1>7, <2>1 DEF RowTruth
    <2>2. CASE x \notin DOMAIN rows
        <3>1. x = y /\ y \in Alive /\ table[z].born \in table[y].line
            BY <1>1, <1>7, <2>2 DEF Steady, Parent
        <3>2. IsAncestor(y, z)
            BY <1>1, <3>1 DEF TreeInv
        <3>3. QED
            BY <1>2, <1>7, <2>2, <3>1, <3>2 DEF IsAncestor
    <2>3. QED
        BY <2>1, <2>2
<1>8. ASSUME NEW p \in Pids, NEW x \in DOMAIN more, Steady(p), more[x] # None,
             more[x].born \in table[p].line
      PROVE  AncestorRow(more, p, x)
    <2>1. CASE x \in DOMAIN rows
        <3>1. AncestorRow(rows, p, x) /\ more[x] = rows[x]
            BY <1>1, <1>8, <2>1 DEF RowTruth
        <3>2. Whoever(more, rows[x].ppid, p, rows[x].born)
            BY <1>1, <1>2, <3>1 DEF AncestorRow, Whoever
        <3>3. QED
            BY <3>1, <3>2 DEF AncestorRow
    <2>2. CASE x \notin DOMAIN rows
        <3>1. x = y /\ y \in Alive /\ more[y].ppid = table[y].ppid /\ more[y].born = table[y].born
            BY <1>1, <1>2, <1>8, <2>2
        <3>2. p \in Alive /\ IsAncestor(p, y)
            BY <1>1, <1>8, <3>1 DEF TreeInv, Steady
        <3>3. Steady(y) /\ more[y].name = table[y].image.name
            BY <1>2, <1>8, <2>2, <3>1, AncestorsAreSteady
        <3>4. table[y].born \in Nat \ {0} /\ table[p].line \subseteq Nat
            BY <1>1, <3>1, <3>2, LineIsNat, ProcessFields
        <3>5. table[p].spawner = 0 => more[y].name # "claude"
            BY <3>2, <3>3, <3>4 DEF IsAncestor, IsAgentRuntime
        <3>6. more[y].name = "node" => more[y].born \in table[p].nodes
            BY <3>1, <3>2, <3>3 DEF IsAncestor
        <3>7. \A b : ParentOrLater(y, b) => LineOrLater(p, b, table[y].born)
            BY <3>2 DEF ParentOrLater, Parent, LineOrLater, IsAncestor
        <3>8. ASSUME NEW z \in Pids, z = table[y].ppid
              PROVE  /\ z \in Alive => LineOrLater(p, table[z].born, table[y].born)
                     /\ z \in DOMAIN more /\ more[z] # None =>
                           LineOrLater(p, more[z].born, table[y].born)
            <4>1. z \in Alive => ParentOrLater(y, table[z].born)
                BY <1>1, <3>1, <3>8 DEF TableInv
            <4>2. z \in DOMAIN rows /\ rows[z] # None => ParentOrLater(y, rows[z].born)
                BY <1>1, <3>3, <3>8 DEF RowsInv
            <4>3. QED
                BY <1>1, <1>2, <3>7, <4>1, <4>2
        <3>9. Whoever(more, more[y].ppid, p, more[y].born)
            BY <3>1, <3>8 DEF Whoever
        <3>10. QED
            BY <3>1, <3>5, <3>6, <3>9 DEF AncestorRow
    <2>3. QED
        BY <2>1, <2>2
<1>9. QED
    BY <1>3, <1>4, <1>5, <1>6, <1>7, <1>8 DEF RowTruth, more

\* What a step of the scan, to the record sc, has to see to.
LEMMA FactsCarryOver ==
    ASSUME JInv, IInv', UNCHANGED <<table, births>>, NEW sc, scan' = sc,
           sc.before = scan.before, RowTruth(sc.rows), Facts(sc)
    PROVE  JInv'
<1>1. /\ Alive' = Alive /\ BirthsAlive' = BirthsAlive
      /\ \A x : Steady(x)' <=> Steady(x)
    BY DEF Alive, BirthsAlive, Steady
<1>2. TreeInv'
    BY <1>1 DEF JInv, TreeInv, IsAncestor, Parent
<1>3. RowTruth(scan.rows)'
    BY <1>1 DEF RowTruth, AncestorRow, Whoever, LineOrLater, Parent
<1>4. \A x : (Tied(x)' <=> Tied(x)) /\ (Good(x)' <=> Good(x))
    BY <1>1 DEF Tied, Chain, Good, HasItsShell, IsSession, ParentOf
<1>5. ShapeOf(scan)'
    BY <1>1 DEF Facts, ShapeOf
<1>6. HelpersOf(scan)'
    BY <1>1, <1>4 DEF Facts, HelpersOf, InChain, Chain
<1>7. SessionsOf(scan)'
    BY <1>1, <1>4 DEF Facts, SessionsOf, Whoever, LineOrLater, Found
<1>8. QED
    BY <1>2, <1>3, <1>5, <1>6, <1>7 DEF JInv, Facts

LEMMA VerdictKeepsFacts ==
    ASSUME JInv, IInv', UNCHANGED <<table, births>>, scan.step \in Candidate,
           NEW rows, RowTruth(rows), NEW isSession \in BOOLEAN, scan' = Judged(rows, isSession),
           isSession => ~Tied(scan.pid),
           ~isSession => ~Good(scan.pid)
    PROVE  JInv'
<1> DEFINE sc == Judged(rows, isSession)
<1>1. scan = Fields
    BY ScanParts DEF JInv
<1>2. /\ sc.step = "next" /\ sc.rows = rows /\ sc.before = scan.before /\ sc.seen = {}
      /\ sc.todo = scan.todo /\ sc.names = scan.names
      /\ sc.counted = IF isSession THEN scan.counted \cup {scan.pid} ELSE scan.counted
    BY <1>1 DEF Judged, Fields
<1> HIDE DEF sc
<1>3. ShapeOf(sc)
    BY <1>2 DEF JInv, Facts, ShapeOf, Steps, Candidate
<1>4. HelpersOf(sc)
    BY <1>2 DEF JInv, Facts, HelpersOf
<1>5. \A p \in Pids : Good(p) => p \in scan.todo \cup scan.counted \cup {scan.pid}
    BY DEF JInv, Facts, SessionsOf, Found, Candidate
<1>6. SessionsOf(sc)
    BY <1>2, <1>5 DEF SessionsOf, Found, Candidate
<1>7. Facts(sc) /\ scan' = sc /\ RowTruth(sc.rows)
    BY <1>2, <1>3, <1>4, <1>6 DEF Facts, sc
<1>8. QED
    BY <1>2, <1>7, FactsCarryOver

LEMMA EnumerateKeepsFacts ==
    ASSUME JInv, IInv', Enumerate
    PROVE  JInv'
<1>1. /\ scan' = [step |-> "next", names |-> [p \in Alive |-> table[p].image.name],
                  todo |-> {p \in Alive : table[p].image.name \in {"claude", "node"}},
                  rows |-> <<>>, counted |-> {}, pid |-> None, at |-> None, child |-> 0,
                  seen |-> {}, before |-> BirthsAlive]
      /\ UNCHANGED <<table, births>>
    BY DEF Enumerate, Rest
<1>2. Alive' = Alive /\ \A x : Steady(x)' => x \in Alive
    BY <1>1 DEF Alive, Steady
<1>3. TreeInv'
    BY <1>1, <1>2 DEF JInv, TreeInv, IsAncestor, Parent
<1>4. RowTruth(scan.rows)'
    BY <1>1, NoRows DEF RowTruth
<1>5. ShapeOf(scan)'
    BY <1>1, <1>2 DEF ShapeOf, Steps
<1>6. HelpersOf(scan)'
    BY <1>1 DEF HelpersOf
<1>7. \A p \in Pids : Good(p)' => p \in Alive /\ table[p].image.name \in {"claude", "node"}
    BY <1>1, <1>2 DEF Good, HasItsShell, IsSession, IsAgentRuntime
<1>8. SessionsOf(scan)'
    BY <1>1, <1>7 DEF SessionsOf, Found
<1>9. QED
    BY <1>3, <1>4, <1>5, <1>6, <1>8 DEF JInv, Facts

LEMMA ClassifyKeepsFacts ==
    ASSUME JInv, IInv', NEW p \in Pids, Classify(p)
    PROVE  JInv'
<1>1. scan = Fields /\ scan.step = "next" /\ p \in scan.todo /\ UNCHANGED <<table, births>>
    BY ScanParts DEF Classify, JInv
<1>2. /\ scan'.before = scan.before /\ scan'.rows = scan.rows /\ scan'.seen = scan.seen
      /\ scan'.names = scan.names /\ scan'.counted = scan.counted
      /\ scan'.todo = scan.todo \ {p}
      /\ IF Matches(p) THEN scan'.step = "self" /\ scan'.pid = p ELSE scan'.step = "next"
    BY <1>1 DEF Classify, Fields
<1>3. Good(p) => Matches(p)
    <2> SUFFICES ASSUME Good(p)
                 PROVE  Matches(p)
        OBVIOUS
    <2>1. Steady(p) /\ p \in Alive /\ IsSession(p)
        BY DEF Good, HasItsShell, Steady
    <2>2. scan.names[p] = table[p].image.name
        BY <1>1, <2>1 DEF JInv, Facts, ShapeOf
    <2>3. QED
        BY <2>1, <2>2 DEF Matches, IsSession, IsAgentRuntime, Alive
<1>4. ShapeOf(scan')
    BY <1>1, <1>2 DEF JInv, Facts, ShapeOf, Steps
<1>5. HelpersOf(scan')
    BY <1>2 DEF JInv, Facts, HelpersOf
<1>6. \A q \in Pids : Good(q) => q \in scan.todo \cup scan.counted
    BY <1>1 DEF JInv, Facts, SessionsOf, Found, Candidate
<1>7. SessionsOf(scan')
    BY <1>2, <1>3, <1>6 DEF SessionsOf, Found, Candidate
<1>8. Facts(scan') /\ RowTruth(scan'.rows)
    BY <1>2, <1>4, <1>5, <1>7 DEF Facts, JInv
<1>9. QED
    BY <1>1, <1>2, <1>8, FactsCarryOver

LEMMA FetchSelfKeepsFacts ==
    ASSUME JInv, IInv', FetchSelf
    PROVE  JInv'
<1> DEFINE p == scan.pid
           rows == RowsWith(p)
           row == RowOf(p)
<1>1. /\ scan = Fields /\ scan.step = "self" /\ p \in Pids /\ UNCHANGED <<table, births>>
      /\ RowsInv(rows) /\ rows[p] = row /\ p \in DOMAIN rows
    BY ScanParts, RowFetched DEF FetchSelf, RowsWith, JInv
<1>2. RowTruth(rows)
    BY <1>1, RowsStayTrue DEF Candidate
<1>3. CASE row = None
    <2>1. ~Good(p)
        BY <1>1, <1>3 DEF Good, HasItsShell, RowsInv
    <2>2. scan' = Judged(rows, FALSE)
        BY <1>3 DEF FetchSelf
    <2>3. QED
        BY <1>1, <1>2, <2>1, <2>2, VerdictKeepsFacts DEF Candidate
<1>4. CASE row # None
    <2>1. /\ scan'.step = "parent" /\ scan'.rows = rows /\ scan'.before = scan.before
          /\ scan'.seen = scan.seen /\ scan'.names = scan.names /\ scan'.counted = scan.counted
          /\ scan'.todo = scan.todo /\ scan'.pid = p
        BY <1>1, <1>4 DEF FetchSelf, Fields
    <2> HIDE DEF rows, row
    <2>2. ShapeOf(scan')
        BY <1>1, <2>1 DEF JInv, Facts, ShapeOf, Steps
    <2>3. HelpersOf(scan')
        BY <2>1 DEF JInv, Facts, HelpersOf
    <2>4. SessionsOf(scan')
        BY <1>1, <2>1 DEF JInv, Facts, SessionsOf, Found, Candidate
    <2>5. QED
        BY <1>1, <1>2, <2>1, <2>2, <2>3, <2>4, FactsCarryOver DEF Facts
<1>5. QED
    BY <1>3, <1>4

\* The parent, if it lives, is where the row of its child says.
LEMMA ParentIsThere ==
    ASSUME JInv, NEW x \in DOMAIN scan.rows, Steady(x), table[x].line # {},
           ParentOf(x) \in BirthsAlive
    PROVE  /\ scan.rows[x].ppid \in Alive
           /\ table[scan.rows[x].ppid].born = ParentOf(x)
<1>1. x \in Alive /\ Parent(x, ParentOf(x))
    BY YoungestOfLine DEF JInv, Steady
<1>2. PICK z \in Alive : table[z].born = ParentOf(x)
    BY DEF BirthsAlive
<1>3. scan.rows[x].ppid = z
    BY <1>1, <1>2 DEF JInv, RowTruth
<1>4. QED
    BY <1>2, <1>3

LEMMA FetchParentKeepsFacts ==
    ASSUME JInv, IInv', FetchParent
    PROVE  JInv'
<1> DEFINE p == scan.pid
           y == scan.at
           rows == IF y \in Pids THEN RowsWith(y) ELSE scan.rows
<1>1. /\ scan = Fields /\ scan.step = "parent" /\ p \in Pids /\ UNCHANGED <<table, births>>
      /\ p \in DOMAIN scan.rows /\ scan.rows[p] # None
      /\ y = scan.rows[p].ppid /\ scan.child = scan.rows[p].born
    BY ScanParts DEF FetchParent, JInv, IInv, ScanInv
<1>2. RowTruth(rows) /\ RowsInv(rows) /\ (y \in Pids => rows[y] = RowOf(y) /\ y \in DOMAIN rows)
    BY <1>1, ScanParts, RowFetched, RowsStayTrue DEF Candidate, JInv, RowsWith
<1>3. rows[p] = scan.rows[p] /\ p \in DOMAIN rows
    BY <1>1 DEF RowsWith, RowOf
<1>4. Steady(p) => scan.child = table[p].born /\ p \in Alive
    BY <1>1, <1>2, <1>3 DEF RowsInv, Steady
<1>5. ASSUME Steady(p), table[p].line # {}, ParentOf(p) \in BirthsAlive
      PROVE  /\ y \in Alive /\ y \in Pids /\ table[y].born = ParentOf(p)
             /\ RowOf(y) # None /\ RowOf(y).born = table[y].born
             /\ table[y].born < scan.child /\ table[y].born \in Nat /\ scan.child \in Nat
    <2>1. y \in Alive /\ table[y].born = ParentOf(p)
        BY <1>1, <1>5, ParentIsThere
    <2>2. ParentOf(p) \in table[p].line
        BY <1>4, <1>5, YoungestOfLine DEF JInv
    <2>3. Steady(y)
        BY <1>1, <1>5, <2>1, <2>2, AncestorsAreSteady
    <2>4. y \in Pids
        BY <2>1 DEF Alive
    <2>5. RowOf(y) # None /\ RowOf(y).born = table[y].born
        BY <1>2, <2>3, <2>4 DEF RowsInv
    <2>6. /\ table[y].born < table[p].born
          /\ table[y].born \in Nat /\ table[p].born \in Nat
        BY <1>4, <1>5, <2>1, <2>2, LineIsNat DEF JInv, IInv
    <2>7. QED
        BY <1>4, <1>5, <2>1, <2>4, <2>5, <2>6
<1>6. CASE scan' = Judged(rows, FALSE) /\ (y \notin Pids \/ RowOf(y) = None \/ RowOf(y).born > scan.child)
    <2>1. ~Good(p)
        BY <1>5, <1>6 DEF Good, HasItsShell
    <2>2. QED
        BY <1>1, <1>2, <1>6, <2>1, VerdictKeepsFacts DEF Candidate
<1>7. CASE scan' = [scan EXCEPT !.step = "walk", !.rows = rows]
    <2>1. /\ scan'.step = "walk" /\ scan'.rows = rows /\ scan'.before = scan.before
          /\ scan'.seen = scan.seen /\ scan'.names = scan.names /\ scan'.counted = scan.counted
          /\ scan'.todo = scan.todo /\ scan'.pid = p /\ scan'.at = y /\ scan'.child = scan.child
        BY <1>1, <1>7 DEF Fields
    <2> HIDE DEF rows
    <2>2. scan.seen = {} /\ ShapeOf(scan')
        BY <1>1, <2>1 DEF JInv, Facts, ShapeOf, Steps
    <2>3. ASSUME Tied(p)
          PROVE  InChain(y, p) /\ scan.child \in Nat /\ table[y].born < scan.child
        <3>1. /\ Steady(p) /\ p \in Alive /\ table[p].spawner # 0 /\ table[p].spawner \in table[p].line
              /\ table[p].spawner \in Nat /\ \A b \in table[p].line : b \in Nat
            BY <1>4, <2>3, LineIsNat DEF Tied, JInv, IInv
        <3>2. Parent(p, ParentOf(p)) /\ ParentOf(p) \in table[p].line
            BY <3>1, YoungestOfLine DEF JInv
        <3>3. ParentOf(p) \in Chain(p)
            BY <3>1, <3>2 DEF Parent, Chain
        <3>4. QED
            BY <1>5, <2>3, <3>1, <3>3 DEF Tied, InChain
    <2>4. HelpersOf(scan')
        BY <2>1, <2>2, <2>3 DEF JInv, Facts, HelpersOf
    <2>5. ASSUME Good(p)
          PROVE  /\ scan.child \in Nat /\ scan.child <= births
                 /\ Whoever(rows, y, p, scan.child)
        <3>1. Steady(p) /\ p \in Alive /\ scan.child = table[p].born
            BY <1>4, <2>5 DEF Good, HasItsShell
        <3>2. scan.child \in Nat /\ scan.child <= births
            BY <3>1, LineIsNat DEF JInv, IInv
        <3>3. \A b : ParentOrLater(p, b) => LineOrLater(p, b, scan.child)
            BY <3>1 DEF ParentOrLater, Parent, LineOrLater
        <3>4. ASSUME y \in Pids
              PROVE  /\ y \in Alive => ParentOrLater(p, table[y].born)
                     /\ y \in DOMAIN rows /\ rows[y] # None => ParentOrLater(p, rows[y].born)
            BY <1>1, <1>2, <1>3, <3>1, <3>4 DEF RowsInv
        <3>5. QED
            BY <3>2, <3>3, <3>4 DEF Whoever
    <2>6. SessionsOf(scan')
        BY <1>1, <2>1, <2>5 DEF JInv, Facts, SessionsOf, Found, Candidate
    <2>7. QED
        BY <1>1, <1>2, <2>1, <2>2, <2>4, <2>6, FactsCarryOver DEF Facts
<1>8. QED
    BY <1>6, <1>7 DEF FetchParent

\* What the walk knows of the process it is at.
LEMMA WalkIsTied ==
    ASSUME JInv, scan.step \in {"walk", "ask"}, Tied(scan.pid)
    PROVE  /\ InChain(scan.at, scan.pid) /\ scan.at \in Pids /\ Steady(scan.at) /\ GoesOn
           /\ IsAncestor(scan.pid, scan.at) /\ scan.pid \in Alive
           /\ scan.child \in Nat /\ table[scan.at].born < scan.child
           /\ \A x \in scan.seen : InChain(x, scan.pid) /\ table[x].born > table[scan.at].born
<1> DEFINE p == scan.pid
           y == scan.at
<1>1. /\ InChain(y, p) /\ scan.child \in Nat /\ table[y].born < scan.child /\ p \in Pids /\ Steady(p)
      /\ \A x \in scan.seen : InChain(x, p) /\ table[x].born > table[y].born
      /\ scan.seen \subseteq Pids /\ Cardinality(Chain(p)) <= WalkLimit
    BY ScanParts DEF JInv, Facts, HelpersOf, ShapeOf, Tied
<1>2. y \in Alive /\ y \in Pids /\ p \in Alive /\ table[y].born \in table[p].line
    BY <1>1 DEF InChain, Chain, Alive, Steady
<1>3. Steady(y) /\ IsAncestor(p, y)
    BY <1>1, <1>2, AncestorsAreSteady DEF JInv, TreeInv
<1>4. y \notin scan.seen
    BY <1>1, <1>2, LineIsNat DEF JInv, IInv
<1>5. Cardinality(scan.seen) < WalkLimit
    <2> DEFINE f == [x \in scan.seen |-> table[x].born]
               above == Chain(p) \ {table[y].born}
    <2>1. table[y].born \in Chain(p)
        BY <1>1 DEF InChain
    <2>2. IsFiniteSet(Chain(p))
        <3>1. Chain(p) \subseteq 1..MaxBirths
            BY <1>2, ProcessFields DEF Chain, Processes, JInv, IInv
        <3>2. IsFiniteSet(1..MaxBirths)
            BY FS_Interval, ConstantsAssumption
        <3>3. QED
            BY <3>1, <3>2, FS_Subset
    <2>3. IsFiniteSet(above) /\ Cardinality(above) = Cardinality(Chain(p)) - 1
        BY <2>1, <2>2, FS_RemoveElement, Zenon
    <2>4. Cardinality(Chain(p)) \in Nat
        BY <2>2, FS_CardinalityType
    <2>5. \A x \in scan.seen : x \in Alive /\ table[x].born \in above
        BY <1>1, <1>2, LineIsNat DEF InChain, JInv, IInv
    <2>6. f \in Injection(scan.seen, above)
        BY <2>5 DEF Injection, IsInjective, JInv, TreeInv
    <2>7. IsFiniteSet(scan.seen) /\ Cardinality(scan.seen) <= Cardinality(above)
        BY <2>3, <2>6, FS_Injection
    <2>8. Cardinality(scan.seen) \in Nat /\ Cardinality(Chain(p)) <= WalkLimit
        BY <1>1, <2>7, FS_CardinalityType
    <2>9. QED
        BY <2>3, <2>7, <2>8, <2>4, ConstantsAssumption
<1>6. QED
    BY <1>1, <1>2, <1>3, <1>4, <1>5 DEF GoesOn

\* One generation up, from what is not an agent.
LEMMA ClimbKeepsFacts ==
    ASSUME JInv, IInv', UNCHANGED <<table, births>>, scan.step \in {"walk", "ask"},
           NEW rows, RowTruth(rows), RowsInv(rows),
           scan.at \in DOMAIN rows, scan.at \in Pids, rows[scan.at] # None,
           scan' = Climbed(rows, rows[scan.at].born),
           Tied(scan.pid) => ~IsAgentRuntime(table[scan.at].image),
           Good(scan.pid) => rows[scan.at].born \in table[scan.pid].line
    PROVE  JInv'
<1> DEFINE p == scan.pid
           y == scan.at
           z == rows[y].ppid
<1>1. /\ scan'.step = "walk" /\ scan'.rows = rows /\ scan'.before = scan.before
      /\ scan'.seen = scan.seen \cup {y} /\ scan'.names = scan.names
      /\ scan'.counted = scan.counted /\ scan'.todo = scan.todo /\ scan'.pid = p
      /\ scan'.at = z /\ scan'.child = rows[y].born
    BY ScanParts DEF Climbed, Fields, JInv
<1>2. p \in Pids
    BY ScanParts DEF JInv
<1>3. ShapeOf(scan')
    BY <1>1 DEF JInv, Facts, ShapeOf, Steps
<1>4. ASSUME Tied(p)
      PROVE  /\ InChain(z, p) /\ rows[y].born \in Nat /\ table[z].born < rows[y].born
             /\ \A x \in scan.seen \cup {y} : InChain(x, p) /\ table[x].born > table[z].born
    <2>1. /\ InChain(y, p) /\ Steady(y) /\ IsAncestor(p, y) /\ p \in Alive
          /\ \A x \in scan.seen : InChain(x, p) /\ table[x].born > table[y].born
        BY <1>4, WalkIsTied
    <2>2. /\ y \in Alive /\ rows[y].born = table[y].born
          /\ table[y].born \in table[p].line /\ table[y].born >= table[p].spawner
        BY <2>1 DEF InChain, Chain, RowsInv
    <2>3. /\ table[p].spawner \in Nat /\ table[p].spawner \in table[p].line
          /\ table[y].born \in Nat /\ \A b \in table[p].line : b \in Nat
        BY <1>4, <2>1, <2>2, LineIsNat DEF Tied, JInv, IInv
    <2>4. table[p].spawner \in table[y].line /\ \A b \in table[y].line : b \in table[p].line
        BY <1>4, <2>1, <2>2, <2>3 DEF IsAncestor
    <2> DEFINE b == ParentOf(y)
    <2>5. b \in table[y].line /\ Parent(y, b)
        BY <2>2, <2>4, YoungestOfLine DEF JInv
    <2> HIDE DEF b
    <2>6. b \in Chain(p) /\ b < table[y].born /\ b \in Nat
        BY <2>2, <2>3, <2>4, <2>5, LineIsNat DEF Parent, Chain, JInv, IInv
    <2>7. PICK w \in Alive : table[w].born = b
        BY <1>4, <2>6 DEF Tied, BirthsAlive
    <2>8. z = w
        BY <2>1, <2>5, <2>7 DEF RowTruth
    <2>9. InChain(z, p) /\ table[z].born = b
        BY <2>6, <2>7, <2>8 DEF InChain
    <2>10. \A x \in scan.seen : table[x].born \in Nat
        BY <2>1, LineIsNat DEF InChain, JInv, IInv
    <2>11. QED
        BY <2>1, <2>2, <2>3, <2>6, <2>9, <2>10
<1>5. HelpersOf(scan')
    <2> HIDE DEF z
    <2>1. QED
        BY <1>1, <1>4 DEF JInv, Facts, HelpersOf
<1>6. ASSUME Good(p)
      PROVE  rows[y].born \in Nat /\ rows[y].born <= births /\ Whoever(rows, z, p, rows[y].born)
    <2>1. Steady(p) /\ p \in Alive
        BY <1>6 DEF Good, HasItsShell, Steady
    <2>2. AncestorRow(rows, p, y)
        BY <1>2, <1>6, <2>1 DEF RowTruth
    <2>3. rows[y].born \in Nat /\ rows[y].born <= births
        BY <1>6, <2>1, LineIsNat DEF RowTruth, JInv, IInv
    <2>4. QED
        BY <2>2, <2>3 DEF AncestorRow
<1>7. \A q \in Pids : Good(q) => q \in scan.todo \cup scan.counted \cup {p}
    BY DEF JInv, Facts, SessionsOf, Found, Candidate
<1>8. SessionsOf(scan')
    BY <1>1, <1>6, <1>7 DEF SessionsOf, Found, Candidate
<1>9. QED
    BY <1>1, <1>3, <1>5, <1>8, FactsCarryOver DEF Facts

LEMMA WalkKeepsFacts ==
    ASSUME JInv, IInv', Walk
    PROVE  JInv'
<1> DEFINE p == scan.pid
           y == scan.at
           row == RowOf(y)
           rows == IF GoesOn THEN RowsWith(y) ELSE scan.rows
<1>1. /\ scan = Fields /\ scan.step = "walk" /\ p \in Pids /\ UNCHANGED <<table, births>>
    BY ScanParts DEF Walk, JInv
<1>2. /\ RowTruth(rows) /\ RowsInv(rows)
      /\ GoesOn => y \in Pids /\ y \in DOMAIN rows /\ rows[y] = row
    BY <1>1, ScanParts, RowFetched, RowsStayTrue DEF Candidate, JInv, RowsWith, GoesOn
<1>3. ASSUME Tied(p)
      PROVE  /\ GoesOn /\ row # None /\ ~(row.born > scan.child)
             /\ row.name = table[y].image.name
    <2>1. /\ Steady(y) /\ GoesOn /\ table[y].born < scan.child /\ scan.child \in Nat /\ y \in Alive
        BY <1>1, <1>3, WalkIsTied DEF Steady
    <2>2. row # None /\ row.born = table[y].born /\ row.name = table[y].image.name
        BY <1>2, <2>1 DEF RowsInv, RowTruth
    <2>3. ~(table[y].born > scan.child)
        <3>1. table[y].born \in Nat
            BY <2>1, LineIsNat DEF JInv, IInv
        <3>2. QED
            BY <2>1, <3>1
    <2>4. QED
        BY <2>1, <2>2, <2>3
<1>4. ASSUME Good(p), GoesOn, row # None, ~(row.born > scan.child)
      PROVE  row.born \in table[p].line /\ row.name # "claude"
    <2>1. scan.child \in Nat /\ Whoever(scan.rows, y, p, scan.child)
        BY <1>1, <1>4 DEF JInv, Facts, SessionsOf
    <2>2. LineOrLater(p, row.born, scan.child)
        <3>1. CASE y \in DOMAIN scan.rows
            BY <1>2, <1>4, <2>1, <3>1 DEF Whoever, RowOf
        <3>2. CASE y \notin DOMAIN scan.rows
            <4>1. y \in Alive /\ row.born = table[y].born
                BY <1>4, <3>2 DEF RowOf, JInv, IInv, TableInv
            <4>2. QED
                BY <1>2, <1>4, <2>1, <4>1 DEF Whoever
        <3>3. QED
            BY <3>1, <3>2
    <2>3. row.born \in table[p].line
        BY <1>4, <2>2 DEF LineOrLater
    <2>4. AncestorRow(rows, p, y)
        BY <1>1, <1>2, <1>4, <2>3 DEF RowTruth, Good, HasItsShell
    <2>5. row.name # "claude"
        BY <1>2, <1>4, <2>4 DEF AncestorRow, Good, HasItsShell, IsSession
    <2>6. QED
        BY <2>3, <2>5
<1>5. CASE scan' = Judged(rows, TRUE) /\ (~GoesOn \/ row = None \/ row.born > scan.child)
    BY <1>1, <1>2, <1>3, <1>5, VerdictKeepsFacts DEF Candidate
<1>6. CASE /\ GoesOn /\ row # None /\ ~(row.born > scan.child)
           /\ row.name = "claude" /\ scan' = Judged(rows, FALSE)
    BY <1>1, <1>2, <1>4, <1>6, VerdictKeepsFacts DEF Candidate
<1>7. CASE /\ GoesOn /\ row # None /\ ~(row.born > scan.child)
           /\ row.name = "node" /\ scan' = [scan EXCEPT !.step = "ask", !.rows = rows]
    <2>1. /\ scan'.step = "ask" /\ scan'.rows = rows /\ scan'.before = scan.before
          /\ scan'.seen = scan.seen /\ scan'.names = scan.names /\ scan'.counted = scan.counted
          /\ scan'.todo = scan.todo /\ scan'.pid = p /\ scan'.at = y /\ scan'.child = scan.child
        BY <1>1, <1>7 DEF Fields
    <2>2. y \in Pids /\ y \in DOMAIN rows /\ rows[y] = row
        BY <1>2, <1>7
    <2>3. ASSUME Good(p)
          PROVE  Whoever(rows, y, p, scan.child)
        <3>1. Whoever(scan.rows, y, p, scan.child)
            BY <1>1, <2>3 DEF JInv, Facts, SessionsOf
        <3>2. LineOrLater(p, row.born, scan.child)
            BY <1>4, <1>7, <2>3 DEF LineOrLater
        <3>3. QED
            BY <2>2, <3>1, <3>2 DEF Whoever
    <2> HIDE DEF rows, row
    <2>4. ShapeOf(scan')
        BY <1>1, <1>7, <2>1, <2>2 DEF JInv, Facts, ShapeOf, Steps
    <2>5. HelpersOf(scan')
        BY <1>1, <2>1 DEF JInv, Facts, HelpersOf
    <2>6. SessionsOf(scan')
        BY <1>1, <1>4, <1>7, <2>1, <2>2, <2>3 DEF JInv, Facts, SessionsOf, Found, Candidate
    <2>7. QED
        BY <1>1, <1>2, <2>1, <2>4, <2>5, <2>6, FactsCarryOver DEF Facts
<1>8. CASE /\ GoesOn /\ row # None /\ ~(row.born > scan.child)
           /\ row.name # "claude" /\ row.name # "node" /\ scan' = Climbed(rows, row.born)
    <2>1. Tied(p) => ~IsAgentRuntime(table[y].image)
        BY <1>3, <1>8 DEF IsAgentRuntime
    <2>2. Good(p) => row.born \in table[p].line
        BY <1>4, <1>8
    <2>3. y \in Pids /\ y \in DOMAIN rows /\ rows[y] = row
        BY <1>2, <1>8
    <2> HIDE DEF rows, row
    <2>4. QED
        BY <1>1, <1>2, <1>8, <2>1, <2>2, <2>3, ClimbKeepsFacts
<1>9. QED
    BY <1>5, <1>6, <1>7, <1>8 DEF Walk

LEMMA AskKeepsFacts ==
    ASSUME JInv, IInv', Ask
    PROVE  JInv'
<1> DEFINE p == scan.pid
           y == scan.at
           rows == scan.rows
<1>1. /\ scan.step = "ask" /\ p \in Pids /\ UNCHANGED <<table, births>>
      /\ RowTruth(rows) /\ RowsInv(rows) /\ DOMAIN rows \subseteq Pids
      /\ y \in DOMAIN rows /\ rows[y] # None /\ rows[y].name = "node"
    BY ScanParts DEF Ask, JInv, Facts, ShapeOf, RowsInv
<1>2. Good(p) => rows[y].born \in table[p].line
    BY <1>1 DEF JInv, Facts, SessionsOf
<1>3. CASE /\ y \in Alive /\ table[y].image.agent /\ scan' = Judged(rows, FALSE)
    <2>1. ASSUME Good(p)
          PROVE  FALSE
        <3>1. Steady(p) /\ p \in Alive /\ table[p].spawner = 0 /\ table[p].nodes \subseteq BirthsAlive
            BY <2>1 DEF Good, HasItsShell, IsSession, Steady
        <3>2. rows[y].born \in table[p].nodes
            BY <1>1, <1>2, <2>1, <3>1 DEF RowTruth, AncestorRow
        <3>3. PICK w \in Alive : table[w].born = rows[y].born
            BY <3>1, <3>2 DEF BirthsAlive
        <3>4. w = y
            BY <1>1, <3>3 DEF RowTruth
        <3>5. Steady(y) /\ IsAncestor(p, y)
            BY <1>2, <2>1, <3>1, <3>3, <3>4, AncestorsAreSteady, <1>1 DEF JInv, TreeInv
        <3>6. table[y].image.name = "node"
            BY <1>1, <3>5 DEF RowTruth
        <3>7. table[y].born \in Nat \ {0}
            BY <1>3, LineIsNat DEF JInv, IInv
        <3>8. QED
            BY <1>3, <3>1, <3>5, <3>6, <3>7 DEF IsAncestor, IsAgentRuntime
    <2>2. QED
        BY <1>1, <1>3, <2>1, VerdictKeepsFacts DEF Candidate
<1>4. CASE /\ ~(y \in Alive /\ table[y].image.readable /\ table[y].image.agent)
           /\ scan' = Climbed(rows, rows[y].born)
    <2>1. ASSUME Tied(p)
          PROVE  ~IsAgentRuntime(table[y].image)
        <3>1. Steady(y) /\ y \in Alive /\ table[y].image.readable
            BY <1>1, <2>1, WalkIsTied DEF Steady, JInv, IInv, TableInv
        <3>2. table[y].image.name = "node"
            BY <1>1, <3>1 DEF RowTruth
        <3>3. QED
            BY <1>4, <3>1, <3>2 DEF IsAgentRuntime
    <2>2. y \in Pids
        BY <1>1
    <2>3. QED
        BY <1>1, <1>2, <1>4, <2>1, <2>2, ClimbKeepsFacts
<1>5. QED
    BY <1>3, <1>4 DEF Ask

LEMMA EndKeepsFacts ==
    ASSUME JInv, IInv', Finish \/ Report
    PROVE  JInv'
<1>1. RowTruth(<<>>)
    BY NoRows DEF RowTruth
<1>2. CASE Finish
    <2>1. /\ scan = Fields /\ scan.step = "next" /\ scan.todo = {} /\ UNCHANGED <<table, births>>
        BY <1>2, ScanParts DEF Finish, JInv
    <2>2. /\ scan'.before = scan.before /\ scan'.rows = <<>> /\ scan'.step = "done"
          /\ scan'.todo = scan.todo /\ scan'.counted = scan.counted /\ scan'.seen = scan.seen
        BY <1>2, <2>1 DEF Finish, Fields
    <2>3. ShapeOf(scan')
        BY <2>1, <2>2 DEF JInv, Facts, ShapeOf, Steps
    <2>4. HelpersOf(scan')
        BY <2>2 DEF JInv, Facts, HelpersOf
    <2>5. SessionsOf(scan')
        BY <2>1, <2>2 DEF JInv, Facts, SessionsOf, Found, Candidate
    <2>6. QED
        BY <1>1, <2>1, <2>2, <2>3, <2>4, <2>5, FactsCarryOver DEF Facts
<1>3. CASE Report
    <2>1. scan' = Rest /\ UNCHANGED <<table, births>> /\ Alive' = Alive
        BY <1>3 DEF Report, Alive
    <2>2. TreeInv'
        BY <2>1 DEF JInv, TreeInv, IsAncestor, Parent
    <2>3. RowTruth(scan.rows)'
        BY <2>1, NoRows DEF RowTruth, Rest
    <2>4. Facts(scan)'
        BY <2>1 DEF Facts, ShapeOf, Steps, HelpersOf, SessionsOf, Rest
    <2>5. QED
        BY <2>2, <2>3, <2>4 DEF JInv
<1>4. QED
    BY <1>2, <1>3

-----------------------------------------------------------------------------

LEMMA InitHasFacts == Init => JInv
<1> SUFFICES ASSUME Init
             PROVE  JInv
    OBVIOUS
<1>1. Alive = {} /\ births = 0 /\ scan = Rest
    BY DEF Init, Alive
<1>2. TreeInv
    BY <1>1, ConstantsAssumption DEF TreeInv
<1>3. RowTruth(scan.rows)
    BY <1>1, NoRows DEF RowTruth, Rest
<1>4. Facts(scan)
    BY <1>1 DEF Facts, ShapeOf, Steps, HelpersOf, SessionsOf, Rest
<1>5. QED
    BY <1>2, <1>3, <1>4, InitHolds DEF JInv

LEMMA NextKeepsFacts ==
    ASSUME JInv, AllReadable, [Next]_vars
    PROVE  JInv'
<1>1. IInv'
    BY NextKeeps DEF JInv
<1>2. ASSUME MachineMoves, TreeInv', UNCHANGED scan
      PROVE  JInv'
    BY <1>1, <1>2, MachineKeepsTruth, MachineKeepsFacts DEF JInv, IInv
<1>3. ASSUME NEW p \in Pids, NEW parent \in Alive \cup {Host}, NEW image \in Images,
             Launch(p, parent, image)
      PROVE  JInv'
    BY <1>2, <1>3, LaunchKeepsTree, LaunchMoves DEF JInv, IInv, Launch
<1>4. ASSUME NEW p \in Pids, Exit(p)
      PROVE  JInv'
    BY <1>2, <1>4, ExitKeepsTree, ExitMoves DEF JInv, IInv, Exit
<1>5. ASSUME ScanStep
      PROVE  JInv'
    BY <1>1, <1>5, EnumerateKeepsFacts, ClassifyKeepsFacts, FetchSelfKeepsFacts,
       FetchParentKeepsFacts, WalkKeepsFacts, AskKeepsFacts, EndKeepsFacts
       DEF ScanStep
<1>6. ASSUME UNCHANGED vars
      PROVE  JInv'
    <2>1. scan' = scan /\ UNCHANGED <<table, births>>
        BY <1>6 DEF vars
    <2>2. QED
        BY <1>1, <2>1, FactsCarryOver DEF JInv
<1>7. QED
    BY <1>3, <1>4, <1>5, <1>6 DEF Next

\* A scan under any coming and going of processes keeps its types (table, births
\* and _ProcessScan's fields, sessions.py), where psutil may read every process.
THEOREM TypeCorrect == AllReadable /\ Spec => []TypeOK
<1> SUFFICES ASSUME AllReadable
             PROVE  Spec => []TypeOK
    OBVIOUS
<1>1. JInv => TypeOK
    BY ScanParts, ConstantsAssumption
       DEF JInv, IInv, TableInv, TreeInv, RowTruth, Facts, ShapeOf, Steps, TypeOK
<1>2. JInv /\ [Next]_vars => JInv'
    BY NextKeepsFacts
<1>3. QED
    BY InitHasFacts, <1>1, <1>2, PTL DEF Spec

\* A session whose shell lives is counted, whoever has the pids of ancestors
\* that are gone, as long as its node ancestors live: _is_excluded_by_tree
\* (sessions.py), where psutil may read every process, at any ancestor limit.
THEOREM SessionsCorrect == AllReadable /\ Spec => []SessionsAreCounted
<1> SUFFICES ASSUME AllReadable
             PROVE  Spec => []SessionsAreCounted
    OBVIOUS
<1>1. JInv => SessionsAreCounted
    <2> SUFFICES ASSUME JInv, scan.step = "done", NEW p \in Pids, Good(p)
                 PROVE  p \in scan.counted
        BY DEF SessionsAreCounted, Good
    <2>1. scan.todo = {} /\ p \in Found(scan)
        BY DEF JInv, Facts, ShapeOf, SessionsOf
    <2>2. QED
        BY <2>1 DEF Found, Candidate
<1>2. JInv /\ [Next]_vars => JInv'
    BY NextKeepsFacts
<1>3. QED
    BY InitHasFacts, <1>1, <1>2, PTL DEF Spec

\* What an agent launched is not counted as long as the processes up to the
\* agent live and are no more than _ANCESTOR_WALK_LIMIT: _is_excluded_by_tree
\* (sessions.py), where psutil may read every process.
THEOREM HelpersCorrect == AllReadable /\ Spec => []HelpersAreNotCounted
<1> SUFFICES ASSUME AllReadable
             PROVE  Spec => []HelpersAreNotCounted
    OBVIOUS
<1>1. JInv => HelpersAreNotCounted
    BY DEF JInv, Facts, HelpersOf, Tied, Chain, HelpersAreNotCounted
<1>2. JInv /\ [Next]_vars => JInv'
    BY NextKeepsFacts
<1>3. QED
    BY InitHasFacts, <1>1, <1>2, PTL DEF Spec

=============================================================================
