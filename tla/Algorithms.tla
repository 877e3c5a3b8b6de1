------------------------------ MODULE Algorithms ------------------------------
(* The folds of the package over every input, one element at a time: each  *)
(* state is an input of one algorithm.                                     *)
EXTENDS SessionDebounce, BeaconAnchors, PaceWalk, HookMerge

CONSTANTS
    Directories, Times, Counts,   \* of the observations of the session count
    BeaconLists,           \* what the text of a line may hold
    FileCount, TurnLines,  \* transcripts of a session, and lines of them
    Theirs,                \* commands of hooks that are the user's
    MaxLength              \* bound: the longest input of each algorithm

Names == {"debounce", "anchors", "pace", "hooks"}

ASSUME InputAssumption ==
    /\ Dwell \in Nat /\ Gap \in Nat /\ MaxAge \in Nat /\ MaxAge >= Gap
    /\ Times \subseteq Int /\ Counts \subseteq Nat
    /\ BeaconLists \subseteq Seq(Beacon(Int))
    /\ Earliest \in Nat /\ HourLength \in Nat \ {0} /\ Hours \in Nat
    /\ FileCount \in Nat /\ TurnLines \subseteq Line(Nat, Nat, STRING)
    /\ CurrentHook \notin Leftovers /\ Theirs \cap ({CurrentHook} \cup Leftovers) = {}
    /\ MaxLength \in [Names -> Nat]

VARIABLES algorithm, input

inputVars == <<algorithm, input>>

NoInput == algorithm \in Names /\ input = <<>>

Grow(element) ==
    /\ Len(input) < MaxLength[algorithm]
    /\ input' = Append(input, element)
    /\ UNCHANGED algorithm

\* Observations come in the order of the clock.
NextObservation ==
    /\ algorithm = "debounce"
    /\ \E o \in Observation(Directories, Times, Counts) :
           /\ o.kind = "render" =>
                 \A i \in DOMAIN input : input[i].kind = "render" => input[i].at <= o.at
           /\ Grow(o)

NextLine ==
    /\ algorithm = "anchors"
    /\ \E beacons \in BeaconLists, assistant \in BOOLEAN, dated \in BOOLEAN :
           /\ assistant \/ dated
           /\ Grow([assistant |-> assistant, ts |-> IF dated THEN Len(input) + 1 ELSE 0,
                    beacons |-> beacons])

NextTurn ==
    /\ algorithm = "pace"
    /\ \E file \in 1..FileCount, line \in TurnLines : Grow([file |-> file, line |-> line])

NextHook ==
    /\ algorithm = "hooks"
    /\ \E hook \in {CurrentHook} \cup Leftovers \cup Theirs, group \in {"same", "new", "empty"} :
           Grow([hook |-> hook, group |-> group])

NextInput == NextObservation \/ NextLine \/ NextTurn \/ NextHook

Inputs == NoInput /\ [][NextInput]_inputVars

-----------------------------------------------------------------------------
(* The input as each algorithm takes it.                                   *)

Transcripts ==
    LET T[n \in 0..Len(input)] ==
            IF n = 0 THEN [f \in 1..FileCount |-> <<>>]
            ELSE [T[n - 1] EXCEPT ![input[n].file] = Append(@, input[n].line)]
    IN  T[Len(input)]

AddTo(groups, x) ==
    IF x.group = "empty" THEN Append(groups, <<>>)
    ELSE IF x.group = "new" \/ groups = <<>> THEN Append(groups, <<x.hook>>)
    ELSE [groups EXCEPT ![Len(groups)] = Append(@, x.hook)]

Groups == LET G[n \in 0..Len(input)] == IF n = 0 THEN <<>> ELSE AddTo(G[n - 1], input[n])
          IN  G[Len(input)]

\* debounce_session_count: the badge shows a second session when it has been
\* seen for the dwell.
DebounceMatchesEpisodes == algorithm = "debounce" => MatchesEpisodes(input)

\* _scan_beacon_anchors: the anchors are those of the lifecycle that is open at
\* the end.
AnchorsMatchLifecycle == algorithm = "anchors" => MatchesLifecycle(input)

\* _sum_window_spend: copies of a message in parent and subagent files are paid
\* for once.
EachTurnIsChargedOnce == algorithm = "pace" => ChargesOnce(Transcripts)

\* _walk_session_hourly: every hour gets the turns stamped in it, each message
\* once, though a file that fails to be read has marked messages seen.
HoursAreFilled == algorithm = "pace" => FillsHours(Transcripts)

\* _merge_nudge_hook, _merge_server_hook: an install leaves one entry of ours
\* and all of theirs.
MergeIsClean == algorithm = "hooks" => CleansUp(Groups)
=============================================================================
