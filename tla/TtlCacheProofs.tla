--------------------------- MODULE TtlCacheProofs ---------------------------
(***************************************************************************)
(* Proof that a render reads whole entries as long as no two threads of a  *)
(* process write the file: then the temporary file a process names after   *)
(* itself has one writer.  The pool's claims see to that for every cache   *)
(* whose file is determined by the argument of its job.                    *)
(***************************************************************************)
EXTENDS TtlCache, TLAPS

OneWriterPerProcess == \A t, u \in Threads : ProcessOf[t] = ProcessOf[u] => t = u

HeldTypes ==
    /\ reading \in 1..MaxReadings
    /\ content \in [Inodes -> Content]
    /\ path \in Inodes \cup {None}
    /\ tmp \in [Processes -> Inodes \cup {None}]
    /\ thread \in [Threads ->
                     [step : {"idle", "fetch", "merge", "open", "write", "replace"},
                      entry : Entry, file : Inodes \cup {None}]]
    /\ render \in [file : Inodes \cup {None}, whole : BOOLEAN]

\* No temporary file is the cache's, a render's or another process's.
FilesApart ==
    \A p \in Processes : tmp[p] # None =>
        /\ tmp[p] # path
        /\ tmp[p] # render.file
        /\ \A q \in Processes : tmp[q] = tmp[p] => q = p

\* What renders can get at is whole.
PublishedWhole ==
    /\ path # None => content[path] \in Entry
    /\ render.file # None => content[render.file] \in Entry

\* A writer works on its process's temporary file, and has it whole before
\* it renames it.
WritersAlone ==
    \A t \in Threads :
        /\ thread[t].step = "write" =>
              /\ thread[t].file # None
              /\ thread[t].file = tmp[ProcessOf[t]]
              /\ content[thread[t].file] = Empty
        /\ thread[t].step = "replace" /\ tmp[ProcessOf[t]] # None =>
              content[tmp[ProcessOf[t]]] \in Entry

IInv == HeldTypes /\ FilesApart /\ PublishedWhole /\ WritersAlone /\ render.whole

-----------------------------------------------------------------------------

LEMMA EntriesAreNoMarks == Empty \notin Entry /\ None \notin Entry
BY ConstantsAssumption DEF Entry

LEMMA IdleHeld ==
    Idle \in [step : {"idle", "fetch", "merge", "open", "write", "replace"},
              entry : Entry, file : Inodes \cup {None}]
BY ConstantsAssumption DEF Idle, Entry

LEMMA InitHolds == Init => IInv
<1> SUFFICES ASSUME Init PROVE IInv
    OBVIOUS
<1>1. HeldTypes
    BY IdleHeld, ConstantsAssumption DEF Init, HeldTypes, Content
<1>2. FilesApart /\ PublishedWhole /\ WritersAlone /\ render.whole
    BY DEF Init, FilesApart, PublishedWhole, WritersAlone, Idle
<1>3. QED
    BY <1>1, <1>2 DEF IInv

\* Steps that touch no file: the thread that takes one gets no nearer a file.
LEMMA ThreadMoves ==
    ASSUME IInv, NEW t \in Threads,
           NEW new \in [step : {"idle", "fetch", "merge", "open"},
                        entry : Entry, file : Inodes \cup {None}],
           thread' = [thread EXCEPT ![t] = new],
           UNCHANGED <<reading, content, path, tmp, render>>
    PROVE  IInv'
<1>1. HeldTypes'
    BY DEF IInv, HeldTypes
<1>2. FilesApart' /\ PublishedWhole' /\ render'.whole
    BY DEF IInv, FilesApart, PublishedWhole
<1>3. WritersAlone'
    BY DEF IInv, HeldTypes, WritersAlone
<1>4. QED
    BY <1>1, <1>2, <1>3 DEF IInv

LEMMA QuietStepsKeep ==
    ASSUME IInv, NEW t \in Threads,
           Begin(t) \/ FetchAnswers(t) \/ FetchFails(t) \/ Merge(t)
    PROVE  IInv'
<1> DEFINE ThreadType == [step : {"idle", "fetch", "merge", "open", "write", "replace"},
                          entry : Entry, file : Inodes \cup {None}]
           new == thread'[t]
<1>1. thread \in [Threads -> ThreadType]
    BY DEF IInv, HeldTypes
<1>2. UNCHANGED <<reading, content, path, tmp, render>>
    BY DEF Begin, FetchAnswers, FetchFails, Merge, fileVars
<1>3. /\ thread' = [thread EXCEPT ![t] = new]
      /\ new.step \in {"idle", "fetch", "merge", "open"}
    BY <1>1 DEF Begin, FetchAnswers, FetchFails, Merge
<1>4. new \in ThreadType
    <2>1. CASE Begin(t) \/ FetchFails(t)
        BY <2>1, <1>1 DEF Begin, FetchFails
    <2>2. CASE FetchAnswers(t)
        <3>1. [reading |-> reading, failed |-> FALSE] \in Entry
            BY DEF IInv, HeldTypes, Entry
        <3>2. QED
            BY <2>2, <3>1, <1>1 DEF FetchAnswers
    <2>3. CASE Merge(t)
        <3> DEFINE old == IF Cached = None THEN 0 ELSE Cached.reading
                   marker == [reading |-> old, failed |-> TRUE]
        <3>1. Cached = None \/ Cached \in Entry
            BY DEF Cached
        <3>2. old \in 0..MaxReadings
            BY <3>1, ConstantsAssumption DEF Entry
        <3>3. thread' = [thread EXCEPT ![t].step = "open", ![t].entry = marker]
            BY <2>3 DEF Merge
        <3> HIDE DEF old
        <3>4. marker \in Entry
            BY <3>2 DEF Entry
        <3> HIDE DEF marker
        <3>5. QED
            BY <3>3, <3>4, <1>1
    <2>4. QED
        BY <2>1, <2>2, <2>3
<1> HIDE DEF new
<1>5. new \in [step : {"idle", "fetch", "merge", "open"},
               entry : Entry, file : Inodes \cup {None}]
    BY <1>3, <1>4
<1>6. QED
    BY <1>2, <1>3, <1>5, ThreadMoves

\* The file a writer opens is its process's, or one that nobody knows.
LEMMA OpenKeeps ==
    ASSUME OneWriterPerProcess, IInv, NEW t \in Threads, OpenTmp(t)
    PROVE  IInv'
<1> DEFINE p == ProcessOf[t]
           file == IF tmp[p] # None THEN tmp[p] ELSE CHOOSE i \in Free : TRUE
<1>1. p \in Processes
    BY ConstantsAssumption
<1>2. /\ file \in Inodes /\ file # None
      /\ file # path /\ file # render.file
      /\ \A q \in Processes : q # p => file # tmp[q]
    <2>1. CASE tmp[p] # None
        BY <2>1, <1>1 DEF IInv, HeldTypes, FilesApart
    <2>2. CASE tmp[p] = None
        <3>1. file \in Free
            BY <2>2 DEF OpenTmp
        <3>2. QED
            BY <3>1, ConstantsAssumption DEF Free
    <2>3. QED
        BY <2>1, <2>2
<1>3. /\ tmp' = [tmp EXCEPT ![p] = file]
      /\ content' = [content EXCEPT ![file] = Empty]
      /\ thread' = [thread EXCEPT ![t].step = "write", ![t].file = file]
      /\ UNCHANGED <<reading, path, render>>
    BY DEF OpenTmp
<1> HIDE DEF file
<1>4. HeldTypes'
    BY <1>1, <1>2, <1>3 DEF IInv, HeldTypes, Content
<1>5. FilesApart'
    BY <1>1, <1>2, <1>3 DEF IInv, HeldTypes, FilesApart
<1>6. PublishedWhole' /\ render'.whole
    BY <1>2, <1>3 DEF IInv, HeldTypes, PublishedWhole
<1>7. WritersAlone'
    <2>1. ASSUME NEW u \in Threads, u # t
          PROVE  /\ ProcessOf[u] \in Processes
                 /\ thread'[u] = thread[u]
                 /\ tmp'[ProcessOf[u]] = tmp[ProcessOf[u]]
                 /\ tmp[ProcessOf[u]] # file
        BY <2>1, <1>1, <1>2, <1>3, ConstantsAssumption
        DEF IInv, HeldTypes, OneWriterPerProcess
    <2>2. /\ thread'[t].step = "write" /\ thread'[t].file = file
          /\ tmp'[p] = file /\ content'[file] = Empty
        BY <1>1, <1>2, <1>3 DEF IInv, HeldTypes
    <2>3. \A u \in Threads : u # t =>
             /\ thread[u].step = "write" => content'[thread[u].file] = content[thread[u].file]
             /\ tmp[ProcessOf[u]] # None =>
                   content'[tmp[ProcessOf[u]]] = content[tmp[ProcessOf[u]]]
        BY <2>1, <1>2, <1>3 DEF IInv, HeldTypes, WritersAlone
    <2>4. QED
        BY <2>1, <2>2, <2>3, <1>2 DEF IInv, WritersAlone
<1>8. QED
    BY <1>4, <1>5, <1>6, <1>7 DEF IInv

\* What a writer does to its file nobody else can see.
LEMMA WriteKeeps ==
    ASSUME OneWriterPerProcess, IInv, NEW t \in Threads, WriteTmp(t) \/ WriteFails(t)
    PROVE  IInv'
<1> DEFINE p == ProcessOf[t]
           file == thread[t].file
<1>1. /\ p \in Processes /\ file \in Inodes /\ file = tmp[p]
      /\ content[file] = Empty
    BY ConstantsAssumption DEF IInv, HeldTypes, WritersAlone, WriteTmp, WriteFails
<1>2. /\ file # path /\ file # render.file
      /\ \A q \in Processes : q # p => file # tmp[q]
    BY <1>1, ConstantsAssumption DEF IInv, FilesApart
<1>3. PICK text \in Content,
           new \in [step : {"idle", "replace"}, entry : Entry, file : Inodes \cup {None}] :
          /\ content' = [content EXCEPT ![file] = text]
          /\ thread' = [thread EXCEPT ![t] = new]
          /\ new.step = "replace" => text \in Entry
    <2>1. CASE WriteTmp(t)
        <3> DEFINE next == [Idle EXCEPT !.step = "replace"]
        <3>1. thread[t].entry \in Entry
            BY DEF IInv, HeldTypes
        <3>2. next \in [step : {"idle", "replace"}, entry : Entry, file : Inodes \cup {None}]
            BY IdleHeld
        <3>3. /\ content' = [content EXCEPT ![file] = thread[t].entry]
              /\ thread' = [thread EXCEPT ![t] = next]
            BY <2>1, <1>1 DEF WriteTmp
        <3> HIDE DEF next
        <3>4. QED
            BY <3>1, <3>2, <3>3 DEF Content
    <2>2. CASE WriteFails(t)
        <3>1. Idle \in [step : {"idle", "replace"}, entry : Entry, file : Inodes \cup {None}]
            BY IdleHeld DEF Idle
        <3>2. Idle.step # "replace"
            BY DEF Idle
        <3>3. QED
            BY <2>2, <3>1, <3>2 DEF WriteFails, Content
    <2>3. QED
        BY <2>1, <2>2
<1>4. UNCHANGED <<reading, path, tmp, render>>
    BY DEF WriteTmp, WriteFails
<1>5. new.step \in {"idle", "replace"}
    BY <1>3
<1>6. HeldTypes'
    BY <1>1, <1>3, <1>4, <1>5 DEF IInv, HeldTypes
<1>7. FilesApart'
    BY <1>4 DEF IInv, FilesApart
<1>8. PublishedWhole' /\ render'.whole
    BY <1>1, <1>2, <1>3, <1>4 DEF IInv, HeldTypes, PublishedWhole
<1>9. WritersAlone'
    <2>1. ASSUME NEW u \in Threads, u # t
          PROVE  /\ thread'[u] = thread[u]
                 /\ thread[u].step = "write" => content'[thread[u].file] = content[thread[u].file]
                 /\ tmp[ProcessOf[u]] # None =>
                       content'[tmp[ProcessOf[u]]] = content[tmp[ProcessOf[u]]]
        <3>1. ProcessOf[u] \in Processes /\ ProcessOf[u] # p
            BY <2>1, ConstantsAssumption DEF OneWriterPerProcess
        <3>2. tmp[ProcessOf[u]] # file
            BY <3>1, <1>2
        <3>3. thread[u].step = "write" => thread[u].file = tmp[ProcessOf[u]]
            BY DEF IInv, WritersAlone
        <3>4. QED
            BY <2>1, <3>1, <3>2, <3>3, <1>1, <1>3 DEF IInv, HeldTypes
    <2>2. thread'[t] = new /\ content'[file] = text /\ tmp'[p] = file
        BY <1>1, <1>3, <1>4 DEF IInv, HeldTypes
    <2>3. QED
        BY <2>1, <2>2, <1>3, <1>4, <1>5 DEF IInv, WritersAlone
<1>10. QED
    BY <1>6, <1>7, <1>8, <1>9 DEF IInv

\* What is renamed is whole.
LEMMA ReplaceKeeps ==
    ASSUME OneWriterPerProcess, IInv, NEW t \in Threads, Replace(t)
    PROVE  IInv'
<1> DEFINE p == ProcessOf[t]
<1>1. p \in Processes
    BY ConstantsAssumption
<1>2. /\ path' = IF tmp[p] # None THEN tmp[p] ELSE path
      /\ tmp' = [tmp EXCEPT ![p] = None]
      /\ thread' = [thread EXCEPT ![t] = Idle]
      /\ UNCHANGED <<reading, content, render>>
    BY DEF Replace
<1>3. HeldTypes'
    BY <1>1, <1>2, IdleHeld DEF IInv, HeldTypes
<1>4. FilesApart'
    BY <1>1, <1>2 DEF IInv, HeldTypes, FilesApart
<1>5. PublishedWhole' /\ render'.whole
    BY <1>1, <1>2 DEF IInv, HeldTypes, PublishedWhole, WritersAlone, Replace
<1>6. WritersAlone'
    <2>1. ASSUME NEW u \in Threads, u # t
          PROVE  thread'[u] = thread[u] /\ tmp'[ProcessOf[u]] = tmp[ProcessOf[u]]
        BY <2>1, <1>1, <1>2, ConstantsAssumption DEF IInv, HeldTypes, OneWriterPerProcess
    <2>2. thread'[t].step = "idle"
        BY <1>2 DEF IInv, HeldTypes, Idle
    <2>3. QED
        BY <2>1, <2>2, <1>2 DEF IInv, WritersAlone
<1>7. QED
    BY <1>3, <1>4, <1>5, <1>6 DEF IInv

\* An entry that expires changes nothing else.
LEMMA ExpireLeaves ==
    ASSUME Expire
    PROVE  UNCHANGED <<reading, content, path, tmp, thread, render, failures, crashes>>
BY Zenon DEF Expire

LEMMA NextKeeps ==
    ASSUME OneWriterPerProcess
    PROVE  IInv /\ [Next]_vars => IInv'
<1> SUFFICES ASSUME IInv, [Next]_vars PROVE IInv'
    OBVIOUS
<1>1. ASSUME NEW t \in Threads, ThreadStep(t) \/ FetchFails(t) \/ WriteFails(t)
      PROVE  IInv'
    BY <1>1, QuietStepsKeep, OpenKeeps, WriteKeeps, ReplaceKeeps DEF ThreadStep
<1>2. ASSUME NEW p \in Processes, Crash(p) PROVE IInv'
    <2>1. /\ thread' = [t \in Threads |-> IF ProcessOf[t] = p THEN Idle ELSE thread[t]]
          /\ UNCHANGED <<reading, content, path, tmp, render>>
        BY <1>2 DEF Crash, fileVars
    <2>2. \A t \in Threads : thread'[t] = thread[t] \/ thread'[t] = Idle
        BY <2>1
    <2>3. HeldTypes'
        BY <2>1, IdleHeld DEF IInv, HeldTypes
    <2>4. FilesApart' /\ PublishedWhole' /\ render'.whole
        BY <2>1 DEF IInv, FilesApart, PublishedWhole
    <2>5. Idle.step = "idle"
        BY DEF Idle
    <2>6. WritersAlone'
        BY <2>1, <2>2, <2>5 DEF IInv, WritersAlone
    <2>7. QED
        BY <2>3, <2>4, <2>6 DEF IInv
<1>3. CASE RenderOpens
    BY <1>3 DEF RenderOpens, fileVars, IInv, HeldTypes, FilesApart, PublishedWhole, WritersAlone
<1>4. CASE RenderReads
    BY <1>4, ConstantsAssumption
    DEF RenderReads, fileVars, IInv, HeldTypes, FilesApart, PublishedWhole, WritersAlone
<1>5. CASE ReadingMoves
    BY <1>5, ConstantsAssumption
    DEF ReadingMoves, fileVars, IInv, HeldTypes, FilesApart, PublishedWhole, WritersAlone
<1>6. CASE UNCHANGED vars
    BY <1>6 DEF vars, fileVars, IInv, HeldTypes, FilesApart, PublishedWhole, WritersAlone
<1>7. CASE Expire
    BY <1>7, ExpireLeaves DEF IInv, HeldTypes, FilesApart, PublishedWhole, WritersAlone
<1>8. QED
    BY <1>1, <1>2, <1>3, <1>4, <1>5, <1>6, <1>7 DEF Next

\* Whoever writes, fails, renames or dies, a render reads a whole entry, as long
\* as each process writes the file with one thread at a time (write_ttl_cache:
\* concurrent writers "never see a partial file").
THEOREM WholeEntries ==
    ASSUME OneWriterPerProcess
    PROVE  Spec => []RendersReadWholeEntries
<1>1. Init => IInv
    BY InitHolds
<1>2. IInv /\ [Next]_vars => IInv'
    BY NextKeeps
<1>3. IInv => RendersReadWholeEntries
    BY DEF IInv, RendersReadWholeEntries
<1>4. QED
    BY <1>1, <1>2, <1>3, PTL DEF Spec

-----------------------------------------------------------------------------
(* Types need no such assumption.                                          *)

LEMMA HeldTypesKept == HeldTypes /\ [Next]_vars => HeldTypes'
<1> DEFINE ThreadType == [step : {"idle", "fetch", "merge", "open", "write", "replace"},
                          entry : Entry, file : Inodes \cup {None}]
<1> SUFFICES ASSUME HeldTypes, [Next]_vars PROVE HeldTypes'
    OBVIOUS
<1>1. ASSUME NEW t \in Threads, Begin(t) \/ FetchFails(t)
      PROVE  HeldTypes'
    BY <1>1 DEF Begin, FetchFails, fileVars, HeldTypes
<1>2. ASSUME NEW t \in Threads, FetchAnswers(t)
      PROVE  HeldTypes'
    <2>1. [reading |-> reading, failed |-> FALSE] \in Entry
        BY DEF HeldTypes, Entry
    <2>2. QED
        BY <1>2, <2>1 DEF FetchAnswers, fileVars, HeldTypes
<1>3. ASSUME NEW t \in Threads, Merge(t)
      PROVE  HeldTypes'
    <2> DEFINE old == IF Cached = None THEN 0 ELSE Cached.reading
               marker == [reading |-> old, failed |-> TRUE]
    <2>1. Cached = None \/ Cached \in Entry
        BY DEF Cached
    <2>2. old \in 0..MaxReadings
        BY <2>1, ConstantsAssumption DEF Entry
    <2>3. /\ thread' = [thread EXCEPT ![t].step = "open", ![t].entry = marker]
          /\ UNCHANGED <<reading, content, path, tmp, render>>
        BY <1>3 DEF Merge, fileVars
    <2> HIDE DEF old
    <2>4. marker \in Entry
        BY <2>2 DEF Entry
    <2> HIDE DEF marker
    <2>5. QED
        BY <2>3, <2>4 DEF HeldTypes
<1>4. ASSUME NEW t \in Threads, OpenTmp(t)
      PROVE  HeldTypes'
    <2> DEFINE p == ProcessOf[t]
               file == IF tmp[p] # None THEN tmp[p] ELSE CHOOSE i \in Free : TRUE
    <2>1. file \in Inodes
        <3>1. p \in Processes /\ (tmp[p] # None \/ Free # {})
            BY <1>4, ConstantsAssumption DEF OpenTmp
        <3>2. QED
            BY <3>1 DEF HeldTypes, Free
    <2>2. /\ tmp' = [tmp EXCEPT ![p] = file]
          /\ content' = [content EXCEPT ![file] = Empty]
          /\ thread' = [thread EXCEPT ![t].step = "write", ![t].file = file]
          /\ UNCHANGED <<reading, path, render>>
        BY <1>4 DEF OpenTmp
    <2> HIDE DEF file
    <2>3. QED
        BY <2>1, <2>2 DEF HeldTypes, Content
<1>5. ASSUME NEW t \in Threads, WriteTmp(t) \/ WriteFails(t)
      PROVE  HeldTypes'
    <2>1. PICK text \in Content, new \in ThreadType :
              /\ content' = [content EXCEPT ![thread[t].file] = text]
              /\ thread' = [thread EXCEPT ![t] = new]
        <3>1. thread[t].entry \in Content /\ Torn \in Content
            BY DEF HeldTypes, Content
        <3> DEFINE next == [Idle EXCEPT !.step = "replace"]
        <3>2. Idle \in ThreadType /\ next \in ThreadType
            BY IdleHeld
        <3>3. CASE WriteTmp(t)
            <4>1. /\ thread' = [thread EXCEPT ![t] = next]
                  /\ \/ content' = [content EXCEPT ![thread[t].file] = thread[t].entry]
                     \/ content' = [content EXCEPT ![thread[t].file] = Torn]
                BY <3>3 DEF WriteTmp
            <4> HIDE DEF next
            <4>2. QED
                BY <3>1, <3>2, <4>1
        <3>4. CASE WriteFails(t)
            BY <3>1, <3>2, <3>4 DEF WriteFails
        <3>5. QED
            BY <1>5, <3>3, <3>4
    <2>2. UNCHANGED <<reading, path, tmp, render>>
        BY <1>5 DEF WriteTmp, WriteFails
    <2>3. QED
        BY <2>1, <2>2 DEF HeldTypes
<1>6. ASSUME NEW t \in Threads, Replace(t)
      PROVE  HeldTypes'
    BY <1>6, IdleHeld, ConstantsAssumption DEF Replace, HeldTypes
<1>7. ASSUME NEW p \in Processes, Crash(p)
      PROVE  HeldTypes'
    BY <1>7, IdleHeld DEF Crash, fileVars, HeldTypes
<1>8. CASE RenderOpens \/ Expire \/ RenderReads \/ ReadingMoves \/ UNCHANGED vars
    <2>1. CASE RenderOpens
        BY <2>1 DEF RenderOpens, fileVars, HeldTypes
    <2>2. CASE RenderReads
        <3>1. render'.file = None /\ render'.whole \in BOOLEAN /\ render' = [file |-> None, whole |-> render'.whole]
            BY <2>2 DEF RenderReads
        <3>2. QED
            BY <2>2, <3>1 DEF RenderReads, fileVars, HeldTypes
    <2>3. CASE ReadingMoves
        BY <2>3, ConstantsAssumption DEF ReadingMoves, fileVars, HeldTypes
    <2>4. CASE UNCHANGED vars
        BY <2>4 DEF vars, fileVars, HeldTypes
    <2>5. CASE Expire
        BY <2>5, ExpireLeaves DEF HeldTypes
    <2>6. QED
        BY <1>8, <2>1, <2>2, <2>3, <2>4, <2>5
<1>9. QED
    BY <1>1, <1>2, <1>3, <1>4, <1>5, <1>6, <1>7, <1>8 DEF Next, ThreadStep

LEMMA CountsKept ==
    failures \in 0..MaxFailures /\ crashes \in 0..MaxCrashes /\ [Next]_vars
      => failures' \in 0..MaxFailures /\ crashes' \in 0..MaxCrashes
<1> SUFFICES ASSUME failures \in 0..MaxFailures, crashes \in 0..MaxCrashes, [Next]_vars
             PROVE  failures' \in 0..MaxFailures /\ crashes' \in 0..MaxCrashes
    OBVIOUS
<1>1. ASSUME NEW t \in Threads, FetchFails(t) \/ WriteFails(t)
      PROVE  failures < MaxFailures /\ failures' = failures + 1 /\ UNCHANGED crashes
    BY <1>1 DEF FetchFails, WriteFails
<1>2. ASSUME NEW p \in Processes, Crash(p)
      PROVE  crashes < MaxCrashes /\ crashes' = crashes + 1 /\ UNCHANGED failures
    BY <1>2 DEF Crash
<1>3. ASSUME NEW t \in Threads, ThreadStep(t)
      PROVE  UNCHANGED <<failures, crashes>>
    BY <1>3 DEF ThreadStep, Begin, FetchAnswers, Merge, OpenTmp, WriteTmp, Replace
<1>4. CASE RenderOpens \/ Expire \/ RenderReads \/ ReadingMoves \/ UNCHANGED vars
    BY <1>4 DEF RenderOpens, Expire, RenderReads, ReadingMoves, vars
<1>5. QED
    BY <1>1, <1>2, <1>3, <1>4, ConstantsAssumption DEF Next

LEMMA ExpiredKept == expired \in BOOLEAN /\ [Next]_vars => expired' \in BOOLEAN
<1> SUFFICES ASSUME expired \in BOOLEAN, [Next]_vars
             PROVE  expired' \in BOOLEAN
    OBVIOUS
<1>1. ASSUME NEW t \in Threads, ThreadStep(t) \/ FetchFails(t) \/ WriteFails(t)
      PROVE  expired' \in BOOLEAN
    <2>1. CASE Replace(t)
        <3>1. expired' = (expired /\ tmp[ProcessOf[t]] = None)
            BY <2>1 DEF Replace
        <3>2. QED
            BY <3>1, Zenon
    <2>2. CASE UNCHANGED expired
        BY <2>2
    <2>3. QED
        BY <1>1, <2>1, <2>2 DEF ThreadStep, Begin, FetchAnswers, FetchFails, Merge, OpenTmp, WriteTmp,
                                WriteFails, fileVars
<1>2. CASE Expire
    BY <1>2 DEF Expire
<1>3. QED
    BY <1>1, <1>2 DEF Next, Crash, RenderOpens, RenderReads, ReadingMoves, vars, fileVars

\* The variables keep their types, whoever shares a temporary file: a writer's
\* handle, a process's temporary file and the cache's name are always inodes
\* or nothing (write_ttl_cache).
THEOREM TypeCorrect == Spec => []TypeOK
<1> DEFINE Types == /\ HeldTypes /\ expired \in BOOLEAN
                    /\ failures \in 0..MaxFailures /\ crashes \in 0..MaxCrashes
<1>1. Init => Types
    <2>1. Init => expired \in BOOLEAN
        <3>1. Init => expired = FALSE
            BY Zenon DEF Init
        <3>2. FALSE \in BOOLEAN
            OBVIOUS
        <3>3. QED
            BY <3>1, <3>2, Zenon
    <2>2. Init => HeldTypes
        BY InitHolds DEF IInv
    <2>3. Init => failures = 0 /\ crashes = 0
        BY Zenon DEF Init
    <2>4. 0 \in 0..MaxFailures /\ 0 \in 0..MaxCrashes
        BY ConstantsAssumption
    <2>5. QED
        BY <2>1, <2>2, <2>3, <2>4, Zenon
<1>2. Types /\ [Next]_vars => Types'
    BY HeldTypesKept, ExpiredKept, CountsKept
<1>3. Types => TypeOK
    BY DEF HeldTypes, TypeOK
<1>4. QED
    BY <1>1, <1>2, <1>3, PTL DEF Spec
=============================================================================
