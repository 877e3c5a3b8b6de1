--------------------------- MODULE SessionDebounce ---------------------------
(***************************************************************************)
(* sessions.debounce_session_count: a session that restarts is counted     *)
(* twice for a moment, and the badge is to stay quiet until a second       *)
(* session has been there for a while.  The state is one file for all      *)
(* directories, written by whichever server renders.                       *)
(***************************************************************************)
EXTENDS Integers, SequencesExt

CONSTANTS
    Dwell,      \* _SESSION_DEBOUNCE_DWELL_SECONDS
    Gap,        \* _SESSION_DEBOUNCE_GAP_SECONDS
    MaxAge      \* _SESSION_DEBOUNCE_MAX_AGE_SECONDS

\* What happens to the file: a render with its directory, its clock and the
\* count it read; or a write torn by another server's, read back as nothing.
Observation(Dirs, Times, Counts) ==
    [kind : {"render"}, dir : Dirs, at : Times, raw : Counts] \cup [kind : {"torn"}]

\* The directories with an episode under way, and what is displayed.
Quiet == [episodes |-> <<>>, shown |-> 0]

\* _save_debounce_state: entries of a day ago go.
Pruned(episodes, now) ==
    [d \in {d \in DOMAIN episodes : now - episodes[d].last <= MaxAge} |-> episodes[d]]

Without(episodes, dir) == [d \in DOMAIN episodes \ {dir} |-> episodes[d]]

With(episodes, dir, episode) ==
    [d \in DOMAIN episodes \cup {dir} |-> IF d = dir THEN episode ELSE episodes[d]]

\* The episode goes on, or the observation starts one.
Continued(episodes, o) ==
    [first |-> IF o.dir \in DOMAIN episodes /\ o.at - episodes[o.dir].last <= Gap
               THEN episodes[o.dir].first ELSE o.at,
     last |-> o.at]

\* Mutant of Observe: a quiet observation leaves the episode alone.
ObserveKeeping(state, o) ==
    LET episode == Continued(state.episodes, o)
    IN  IF o.kind = "torn" THEN Quiet
        ELSE IF o.raw < 2 THEN [state EXCEPT !.shown = o.raw]
        ELSE [episodes |-> Pruned(With(state.episodes, o.dir, episode), o.at),
              shown |-> IF o.at - episode.first >= Dwell THEN o.raw ELSE 1]

Observe(state, o) ==
    LET episode == Continued(state.episodes, o)
    IN  IF o.kind = "torn" THEN Quiet
        ELSE IF o.raw < 2
             THEN [episodes |-> IF o.dir \in DOMAIN state.episodes
                                THEN Pruned(Without(state.episodes, o.dir), o.at)
                                ELSE state.episodes,
                   shown |-> o.raw]
        ELSE [episodes |-> Pruned(With(state.episodes, o.dir, episode), o.at),
              shown |-> IF o.at - episode.first >= Dwell THEN o.raw ELSE 1]

Debounced(seen) == FoldLeft(Observe, Quiet, seen)

-----------------------------------------------------------------------------

\* The observations of the last one's directory, up to it.
Same(seen) == {i \in DOMAIN seen : seen[i].kind = "render" /\ seen[i].dir = Last(seen).dir}

\* A second session has been seen at i and, without a gap, a quiet
\* observation or a loss of the file, ever since.
SeenSince(seen, i) ==
    LET stretch == {j \in Same(seen) : j >= i}
    IN  /\ i \in Same(seen)
        /\ \A j \in stretch :
              /\ seen[j].raw >= 2
              /\ j # i => \E k \in stretch : k < j /\ seen[j].at - seen[k].at <= Gap
        /\ \A j \in i..Len(seen) : seen[j].kind # "torn"

\* What the badge shows is the count, except that it says 1 for a second
\* session that has not been seen for the whole dwell yet.
MatchesEpisodes(seen) ==
    seen # <<>> /\ Last(seen).kind = "render" =>
        LET now == Last(seen)
            held == \E i \in DOMAIN seen :
                       SeenSince(seen, i) /\ now.at - seen[i].at >= Dwell
        IN  Debounced(seen).shown = IF now.raw < 2 \/ held THEN now.raw ELSE 1
=============================================================================
