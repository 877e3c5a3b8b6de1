---------------------------- MODULE SessionTables ----------------------------
(***************************************************************************)
(* server_state.StateTables: the resident server's running totals of each  *)
(* session's transcripts.                                                  *)
(*                                                                         *)
(* A render folds only the lines appended since the session's last render; *)
(* cost.walk_transcript, the definition of the totals, reads every file    *)
(* from its start.  The harness appends to the transcripts, and may        *)
(* rewrite them shorter, between any two reads of one render.              *)
(*                                                                         *)
(* An assistant turn is a line with an id and a time; it costs one unit    *)
(* and writes enough cache for an eviction to show.                        *)
(***************************************************************************)
EXTENDS Naturals, SequencesExt

CONSTANTS
    Sessions,      \* session ids
    Parents,       \* transcript paths a payload may carry
    SubagentsOf,   \* the agent-*.jsonl files below each of them
    Lines,         \* what a transcript line may say
    Ttl,           \* lifetime of what a turn writes to the cache
    NoEntry,       \* a session the table does not hold
    NoRead,        \* a file this render has not read yet
    MaxAppends,    \* bound: lines appended to all files together
    MaxRewrites,   \* bound: transcripts rewritten
    MaxSwitches    \* bound: sessions resumed on another transcript

Subagents == UNION {SubagentsOf[p] : p \in Parents}
Files == Parents \cup Subagents
FilesOf(p) == {p} \cup SubagentsOf[p]

ASSUME ConstantsAssumption ==
    /\ SubagentsOf \in [Parents -> SUBSET Subagents]
    /\ Parents \cap Subagents = {}
    /\ IsFiniteSet(Sessions) /\ \A p \in Parents : IsFiniteSet(SubagentsOf[p])
    /\ Ttl \in Nat
    /\ MaxAppends \in Nat /\ MaxRewrites \in Nat /\ MaxSwitches \in Nat
    /\ \A l \in Lines : l.kind \in {"turn", "prompt"}
    /\ \A l \in Lines : l.kind = "turn" => l.at \in Nat

VARIABLES
    content,     \* the complete lines of each transcript
    torn,        \* the transcripts whose last line is still being written
    entry,       \* _sessions
    rewalkCount, \* _rewalk_count
    serving,     \* the session being rendered, if any
    phase,       \* where walk_for is
    reads,       \* what it has read
    appends, rewrites, switches    \* how many of those there have been

worldVars == <<content, torn, appends, rewrites>>
serverVars == <<entry, rewalkCount, serving, phase, reads, switches>>
vars == <<worldVars, serverVars>>

-----------------------------------------------------------------------------
(* The fold both walks are made of (cost_walk and cost).                   *)

Ids == {l.id : l \in {m \in Lines : m.kind = "turn"}}

\* new_walk_accumulator, with the set of message ids beside it.
NewFold == [seen |-> {}, turns |-> 0, prompts |-> 0, evictions |-> 0, lastAt |-> 0]

\* An idle gap longer than what the turn before wrote can have lived.
Evicted(fold, line) == fold.turns > 0 /\ line.at > fold.lastAt + Ttl

\* _accumulate_user_prompt and _accumulate_assistant_turn: prompts and
\* evictions count in the parent only, a repeated id not at all.
FoldLine(fold, line, isParent) ==
    IF line.kind = "prompt" THEN
        IF isParent THEN [fold EXCEPT !.prompts = @ + 1] ELSE fold
    ELSE IF line.id \in fold.seen THEN fold
    ELSE [fold EXCEPT
            !.seen = @ \cup {line.id},
            !.turns = @ + 1,
            !.evictions = IF isParent /\ Evicted(fold, line) THEN @ + 1 ELSE @,
            !.lastAt = line.at]

\* fold_transcript_lines
FoldLines(fold, lines, isParent) ==
    FoldLeft(LAMBDA acc, line : FoldLine(acc, line, isParent), fold, lines)

\* The order in which glob lists the subagents: any, but always the same.
SubagentLines(p, linesOf) ==
    FlattenSeq([i \in 1..Cardinality(SubagentsOf[p]) |->
                   linesOf[SetToSeq(SubagentsOf[p])[i]]])

\* walk_transcript with its subagents, over the given lines of each file.
FullWalk(p, linesOf) ==
    LET parent == FoldLines(NewFold, linesOf[p], TRUE)
    IN  [fold |-> FoldLines(parent, SubagentLines(p, linesOf), FALSE),
         parentTurns |-> parent.turns]

-----------------------------------------------------------------------------

NewEntry(p) ==
    [path |-> p, offsets |-> [f \in Files |-> 0], fold |-> NewFold, parentTurns |-> 0]

Fold == [seen : SUBSET Ids, turns : Nat, prompts : Nat, evictions : Nat, lastAt : Nat]
Entry == [path : Parents, offsets : [Files -> Nat], fold : Fold, parentTurns : Nat]
Read == [lines : Seq(Lines), offset : Nat, rewalked : BOOLEAN]

ASSUME AbsenceAssumption == NoEntry \notin Sessions \cup Entry /\ NoRead \notin Read

TypeOK ==
    /\ content \in [Files -> Seq(Lines)]
    /\ torn \in SUBSET Files
    /\ entry \in [Sessions -> Entry \cup {NoEntry}]
    /\ rewalkCount \in Nat
    /\ serving \in Sessions \cup {NoEntry}
    /\ phase \in {"idle", "reading", "rereading"}
    /\ reads \in [Files -> Read \cup {NoRead}]
    /\ appends \in 0..MaxAppends
    /\ rewrites \in 0..MaxRewrites
    /\ switches \in 0..MaxSwitches

Init ==
    /\ content = [f \in Files |-> <<>>]
    /\ torn = {}
    /\ entry = [s \in Sessions |-> NoEntry]
    /\ rewalkCount = 0
    /\ serving = NoEntry
    /\ phase = "idle"
    /\ reads = [f \in Files |-> NoRead]
    /\ appends = 0 /\ rewrites = 0 /\ switches = 0

-----------------------------------------------------------------------------
(* The harness.                                                            *)

\* The places the server remembers having read f up to.
Positions(f) ==
    {entry[s].offsets[f] : s \in {t \in Sessions : entry[t] # NoEntry}}
      \cup (IF reads[f] = NoRead THEN {} ELSE {reads[f].offset})

StartLine(f) ==
    /\ f \notin torn
    /\ appends < MaxAppends
    /\ torn' = torn \cup {f}
    /\ appends' = appends + 1
    /\ UNCHANGED <<content, rewrites, serverVars>>

\* Once rewritten, a transcript stays shorter than what the server has read of
\* it until the server looks again: see Rewrite.
FinishLine(f, line) ==
    /\ f \in torn
    /\ rewrites = 0 \/ Len(content[f]) + 1 \notin Positions(f)
    /\ content' = [content EXCEPT ![f] = Append(@, line)]
    /\ torn' = torn \ {f}
    /\ UNCHANGED <<appends, rewrites, serverVars>>

\* The rewritten file is shorter than what was read of the old one: a size is
\* all the server compares, and a rewrite it cannot show is out of reach.
Rewrite(f, lines) ==
    /\ rewrites < MaxRewrites
    /\ Len(lines) < Len(content[f])
    /\ \A n \in Positions(f) : n = 0 \/ n > Len(lines)
    /\ content' = [content EXCEPT ![f] = lines]
    /\ torn' = torn \ {f}
    /\ rewrites' = rewrites + 1
    /\ UNCHANGED <<appends, serverVars>>

-----------------------------------------------------------------------------
(* The receive thread: touch_session and walk_for, one request at a time.  *)

\* Mutant of Reset: the parent's share of the cost stays.
ResetKeepsParentCost(e, p) ==
    [NewEntry(p) EXCEPT !.parentTurns = e.parentTurns]

\* _reset, and the path touch_session records after it.
Reset(e, p) == NewEntry(p)

\* touch_session
Touched(s, p) ==
    IF entry[s] = NoEntry THEN NewEntry(p)
    ELSE IF entry[s].path # p THEN Reset(entry[s], p)
    ELSE entry[s]

BeginRender(s, p) ==
    /\ phase = "idle"
    /\ LET switched == entry[s] # NoEntry /\ entry[s].path # p
       IN  IF switched
           THEN /\ switches < MaxSwitches
                /\ switches' = switches + 1
                /\ rewalkCount' = rewalkCount + 1
           ELSE UNCHANGED <<switches, rewalkCount>>
    /\ entry' = [entry EXCEPT ![s] = Touched(s, p)]
    /\ serving' = s
    /\ phase' = "reading"
    /\ UNCHANGED <<worldVars, reads>>

\* Mutant of ReadAppended: the torn line is taken with the complete ones.
ReadAppendedTorn(f, offset) ==
    LET size == Len(content[f]) + (IF f \in torn THEN 1 ELSE 0)
        start == IF size < offset THEN 0 ELSE offset
    IN  [lines |-> SubSeq(content[f], start + 1, Len(content[f])),
         offset |-> size,
         rewalked |-> size < offset]

\* Mutant of ReadAppended: a file that did not grow is taken to have shrunk.
ReadAppendedOffByOne(f, offset) ==
    LET size == Len(content[f])
        start == IF size <= offset THEN 0 ELSE offset
    IN  [lines |-> SubSeq(content[f], start + 1, size),
         offset |-> size,
         rewalked |-> size <= offset /\ offset # 0]

\* read_appended: up to the last newline, or from zero if the file shrank.
ReadAppended(f, offset) ==
    LET size == Len(content[f])
        start == IF size < offset THEN 0 ELSE offset
    IN  [lines |-> SubSeq(content[f], start + 1, size),
         offset |-> size,
         rewalked |-> size < offset]

Path == entry[serving].path
Unread == {f \in FilesOf(Path) : reads[f] = NoRead}

\* The parent is read before its subagents; after a reset, from zero.
ReadFile(f) ==
    /\ phase # "idle"
    /\ f \in Unread
    /\ Path \in Unread => f = Path
    /\ LET offset == IF phase = "rereading" THEN 0 ELSE entry[serving].offsets[f]
       IN  reads' = [reads EXCEPT ![f] = ReadAppended(f, offset)]
    /\ UNCHANGED <<worldVars, entry, rewalkCount, serving, phase, switches>>

Shrunk == \E f \in FilesOf(Path) : reads[f].rewalked

\* A file that shrank anywhere resets the whole entry.
ResetEntry ==
    /\ phase = "reading"
    /\ Unread = {}
    /\ Shrunk
    /\ entry' = [entry EXCEPT ![serving] = Reset(@, @.path)]
    /\ rewalkCount' = rewalkCount + 1
    /\ reads' = [f \in Files |-> NoRead]
    /\ phase' = "rereading"
    /\ UNCHANGED <<worldVars, serving, switches>>

\* Mutant of Folded: the parent's share is taken the wrong way round.
FoldedBackwards(e) ==
    LET linesOf == [f \in FilesOf(e.path) |-> reads[f].lines]
        parent == FoldLines(e.fold, linesOf[e.path], TRUE)
    IN  [e EXCEPT
           !.offsets = [f \in Files |-> IF f \in FilesOf(e.path)
                                        THEN reads[f].offset ELSE @[f]],
           !.fold = FoldLines(parent, SubagentLines(e.path, linesOf), FALSE),
           !.parentTurns = @ - parent.turns]

\* The parent's lines, then the subagents', go into the running totals.
Folded(e) ==
    LET linesOf == [f \in FilesOf(e.path) |-> reads[f].lines]
        parent == FoldLines(e.fold, linesOf[e.path], TRUE)
    IN  [e EXCEPT
           !.offsets = [f \in Files |-> IF f \in FilesOf(e.path)
                                        THEN reads[f].offset ELSE @[f]],
           !.fold = FoldLines(parent, SubagentLines(e.path, linesOf), FALSE),
           !.parentTurns = @ + (parent.turns - e.fold.turns)]

FoldReads ==
    /\ phase # "idle"
    /\ Unread = {}
    /\ phase = "reading" => ~Shrunk
    /\ entry' = [entry EXCEPT ![serving] = Folded(@)]
    /\ reads' = [f \in Files |-> NoRead]
    /\ phase' = "idle"
    /\ serving' = NoEntry
    /\ UNCHANGED <<worldVars, rewalkCount, switches>>

\* drop_idle: a session unseen for an hour, between two requests.
DropIdle(s) ==
    /\ phase = "idle"
    /\ entry[s] # NoEntry
    /\ entry' = [entry EXCEPT ![s] = NoEntry]
    /\ UNCHANGED <<worldVars, rewalkCount, serving, phase, reads, switches>>

Next ==
    \/ \E f \in Files :
          \/ StartLine(f)
          \/ \E line \in Lines : FinishLine(f, line)
          \/ Rewrite(f, <<>>)
          \/ \E line \in Lines : Rewrite(f, <<line>>)
          \/ ReadFile(f)
    \/ \E s \in Sessions : DropIdle(s) \/ \E p \in Parents : BeginRender(s, p)
    \/ ResetEntry
    \/ FoldReads

Spec == Init /\ [][Next]_vars

-----------------------------------------------------------------------------
(* What the tables promise.                                                *)

\* The sessions none of whose transcripts has shrunk unseen.
Current ==
    {s \in Sessions : /\ entry[s] # NoEntry
                      /\ \A f \in FilesOf(entry[s].path) :
                            entry[s].offsets[f] <= Len(content[f])}

\* The walk from the start of what s has folded of each file.
Reference(s) ==
    FullWalk(entry[s].path,
             [f \in FilesOf(entry[s].path) |->
                 SubSeq(content[f], 1, entry[s].offsets[f])])

\* However appends, rewrites, resumptions and evictions from the table fall
\* between the renders and their reads, a session's totals are those of one
\* walk from the start: no line is lost, none is counted twice (walk_for).
TotalsMatchFullWalk ==
    \A s \in Current :
        /\ entry[s].fold.turns = Reference(s).fold.turns
        /\ entry[s].fold.seen = Reference(s).fold.seen
        /\ entry[s].fold.prompts = Reference(s).fold.prompts

\* The split of the cost between a parent and its subagents is that of the
\* walk from the start, as long as no message is in both (parent_cost).
ParentShareMatchesFullWalk ==
    \A s \in Current :
        LET p == entry[s].path
            IdsIn(f) == {l.id : l \in {content[f][i] : i \in
                           {j \in 1..Len(content[f]) : content[f][j].kind = "turn"}}}
        IN  (\A f \in SubagentsOf[p] : IdsIn(f) \cap IdsIn(p) = {})
              => entry[s].parentTurns = Reference(s).parentTurns

\* A session is walked again from the start no more often than transcripts
\* are rewritten or the session is resumed on another one: appends, torn lines
\* included, never cost a rewalk (read_appended and walk_for).
RewalksAreEarned ==
    rewalkCount <= Cardinality(Sessions) * rewrites + switches

\* The evictions shown are those of the walk from the start (walk_for and
\* _accumulate_assistant_turn).
EvictionsMatchFullWalk ==
    \A s \in Current : entry[s].fold.evictions = Reference(s).fold.evictions
=============================================================================
