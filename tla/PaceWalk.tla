------------------------------- MODULE PaceWalk -------------------------------
(***************************************************************************)
(* The walks over the transcripts of one session and its subagents:        *)
(* burnrate's sum for a window and pace_walk's series by the hour.  An     *)
(* auto-compact copies messages of the parent into a subagent's file, and  *)
(* a message is to be paid for once.                                       *)
(*                                                                         *)
(* A turn costs its usage at the price of its model: the walks return the  *)
(* turns they charged, each with the model it was charged at.              *)
(***************************************************************************)
EXTENDS Integers, SequencesExt, FiniteSetsExt

CONSTANTS
    Earliest,     \* the start of the window
    HourLength,   \* the seconds of a bucket
    Hours         \* n_buckets: the window reaches to now

\* A line of a file.  `id` is 0 where there is none, `at` 0 where there is no
\* time stamp, `model` "" where the line does not say; a "cut" is where reading
\* the file fails, and "noise" any line that is no assistant's.
Line(Ids, Ats, Models) ==
    [kind : {"turn"}, id : Ids, at : Ats, model : Models] \cup [kind : {"cut", "noise"}]

IsStamped(line) == line.kind = "turn" /\ line.at # 0

\* _entry_in_window: a file last written before the window is not opened.
InWindow(file) == \E i \in DOMAIN file : IsStamped(file[i]) /\ file[i].at >= Earliest

\* _parse_pace_line: the line counts; its id is marked seen when it does.
Taken(line, seen) ==
    /\ line.kind = "turn"
    /\ line.id = 0 \/ line.id \notin seen
    /\ line.at # 0
    /\ line.at >= Earliest

\* One file, read up to the end or to where reading fails.
Start(seen) == [seen |-> seen, model |-> "", charged |-> <<>>, cut |-> FALSE]

\* Mutant of ReadLine: an id is marked seen before the line has been looked at.
ReadLineMarking(walk, line) ==
    IF walk.cut \/ line.kind = "cut" THEN [walk EXCEPT !.cut = TRUE]
    ELSE IF line.kind = "noise" THEN walk
    ELSE [walk EXCEPT !.seen = IF line.id = 0 THEN @ ELSE @ \cup {line.id},
                      !.charged = IF Taken(line, walk.seen)
                                  THEN Append(@, [id |-> line.id, at |-> line.at, model |-> line.model])
                                  ELSE @]

ReadLine(walk, line) ==
    IF walk.cut \/ line.kind = "cut" THEN [walk EXCEPT !.cut = TRUE]
    ELSE IF ~Taken(line, walk.seen) THEN walk
    ELSE LET model == IF line.model # "" THEN line.model ELSE walk.model
         IN  [walk EXCEPT !.seen = IF line.id = 0 THEN @ ELSE @ \cup {line.id},
                          !.model = model,
                          !.charged = Append(@, [id |-> line.id, at |-> line.at, model |-> model])]

WalkFile(file, seen) == FoldLeft(ReadLine, Start(seen), file)

\* _spend_from_path: what was read before a failure counts.
SpendOfFile(total, file) ==
    IF ~InWindow(file) THEN total
    ELSE LET walk == WalkFile(file, total.seen)
         IN  [seen |-> walk.seen, charged |-> total.charged \o walk.charged]

\* Mutant of Spend: each file starts with no id seen.
SpendApart(files) ==
    FoldLeft(LAMBDA total, file : SpendOfFile([total EXCEPT !.seen = {}], file),
             [seen |-> {}, charged |-> <<>>], files)

\* _sum_window_spend, for one group
Spend(files) == FoldLeft(SpendOfFile, [seen |-> {}, charged |-> <<>>], files)

\* Mutant of HourOf: a turn goes to the hour that begins nearest to it.
HourOfNearest(at) == (at - Earliest + HourLength \div 2) \div HourLength

\* The index of the bucket a turn falls into.
HourOf(at) == (at - Earliest) \div HourLength

NoBurn == [h \in 0..Hours-1 |-> <<>>]

\* _pace_hourly_for_file's own loop: a turn beyond the last bucket is marked
\* seen and counts nowhere.
HourLine(walk, line) ==
    IF walk.cut \/ line.kind = "cut" THEN [walk EXCEPT !.cut = TRUE]
    ELSE IF ~Taken(line, walk.seen) THEN walk
    ELSE LET model == IF line.model # "" THEN line.model ELSE walk.model
             turn == [id |-> line.id, at |-> line.at, model |-> model]
         IN  [walk EXCEPT !.seen = IF line.id = 0 THEN @ ELSE @ \cup {line.id},
                          !.model = model,
                          !.buckets = [h \in 0..Hours-1 |->
                                          IF h = HourOf(line.at) THEN Append(@[h], turn) ELSE @[h]]]

HoursOf(file, seen) ==
    FoldLeft(HourLine, [seen |-> seen, model |-> "", buckets |-> NoBurn, cut |-> FALSE], file)

\* Mutant of HourlyOfFile: the ids of a file that counts nothing are forgotten.
HourlyOfFileForgetting(total, file) ==
    IF ~InWindow(file) THEN total
    ELSE LET walk == HoursOf(file, total.seen)
         IN  IF walk.cut THEN total
             ELSE [seen |-> walk.seen,
                   buckets |-> [h \in 0..Hours-1 |-> total.buckets[h] \o walk.buckets[h]]]

\* A file that cannot be read to the end counts nothing, but the ids it marked
\* stay marked.
HourlyOfFile(total, file) ==
    IF ~InWindow(file) THEN total
    ELSE LET walk == HoursOf(file, total.seen)
         IN  [seen |-> walk.seen,
              buckets |-> IF walk.cut THEN total.buckets
                          ELSE [h \in 0..Hours-1 |-> total.buckets[h] \o walk.buckets[h]]]

\* _walk_session_hourly
Hourly(files) == FoldLeft(HourlyOfFile, [seen |-> {}, buckets |-> NoBurn], files)

Bucket(files, h) == Hourly(files).buckets[h]

-----------------------------------------------------------------------------

LineAt(files, at) == files[at[1]][at[2]]

\* <<file, line>> of the turns in the window that could be read.
Readable(files) ==
    UNION {{f} \X {i \in DOMAIN files[f] :
                     /\ IsStamped(files[f][i]) /\ files[f][i].at >= Earliest
                     /\ \A j \in 1..i : files[f][j].kind # "cut"} : f \in DOMAIN files}

Before(a, b) == a[1] < b[1] \/ (a[1] = b[1] /\ a[2] < b[2])

\* The copies that are to be paid for: of each message the first one.
FirstCopies(files) ==
    {at \in Readable(files) :
        LineAt(files, at).id # 0 =>
            \A other \in Readable(files) :
                LineAt(files, other).id = LineAt(files, at).id => ~Before(other, at)}

\* The turns a walk charged are those of the lines at these places, in order.
PaysFor(files, places, charged) ==
    /\ Len(charged) = Cardinality(places)
    /\ \A at \in places :
          LET line == LineAt(files, at)
              turn == charged[Cardinality({other \in places : ~Before(at, other)})]
          IN  /\ turn.id = line.id /\ turn.at = line.at
              /\ line.model # "" => turn.model = line.model

\* A message is charged once, by the first of its copies that is whole and in
\* the window, at the model that copy names; and no turn without an id is
\* dropped (_parse_pace_line: a truncated line "must not poison the id").
ChargesOnce(files) == PaysFor(files, FirstCopies(files), Spend(files).charged)

\* A first copy that counts for hour h: stamped within it, in a file that can
\* be read to the end.
FirstOfHour(files, h) ==
    {at \in FirstCopies(files) :
        /\ Earliest + h * HourLength <= LineAt(files, at).at
        /\ LineAt(files, at).at < Earliest + (h + 1) * HourLength
        /\ \A i \in DOMAIN files[at[1]] : files[at[1]][i].kind # "cut"}

\* Each bucket holds the turns of its hour, of the same first copies as the sum
\* for the window, but for the files that cannot be read to the end: what they
\* hold is counted in no bucket, nor are its later copies.
FillsHours(files) == \A h \in 0..Hours-1 : PaysFor(files, FirstOfHour(files, h), Bucket(files, h))
=============================================================================
