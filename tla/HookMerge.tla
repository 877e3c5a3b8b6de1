------------------------------ MODULE HookMerge ------------------------------
(***************************************************************************)
(* nudge_install and server_install: how an install finds its own entry    *)
(* among the user's hooks of one event, brings it up to date and removes   *)
(* what earlier installs left.  The hooks of an event are groups, in       *)
(* order; a hook is ours when its command holds one of our markers.        *)
(***************************************************************************)
EXTENDS Integers, SequencesExt, FiniteSetsExt

CONSTANTS
    CurrentHook,    \* our command as this install writes it
    Leftovers   \* commands with a marker that earlier installs wrote

IsOurs(hook) == hook = CurrentHook \/ hook \in Leftovers

\* _find_nudge_hooks, _find_server_hooks: <<group, hook>>, in order.
Found(groups) ==
    UNION {{i} \X {j \in DOMAIN groups[i] : IsOurs(groups[i][j])} : i \in DOMAIN groups}

IsFirst(groups, at) ==
    \A other \in Found(groups) :
        at[1] < other[1] \/ (at[1] = other[1] /\ at[2] <= other[2])

\* _nudge_hook_current, _server_hook_current
IsCurrent(groups) ==
    \E at \in Found(groups) : Found(groups) = {at} /\ groups[at[1]][at[2]] = CurrentHook

\* Where our entry ends up.  The first match is updated; what then equals it
\* in its group is removed by value, first come first, so the last one stays.
Stays(groups, at) ==
    \E first \in Found(groups) :
        /\ IsFirst(groups, first) /\ at[1] = first[1]
        /\ at[2] = Max({first[2]} \cup {j \in DOMAIN groups[at[1]] : groups[at[1]][j] = CurrentHook})

\* The hooks of group i afterwards.
Kept(groups, i) ==
    FlattenSeq([j \in DOMAIN groups[i] |->
        IF ~IsOurs(groups[i][j]) THEN <<groups[i][j]>>
        ELSE IF Stays(groups, <<i, j>>) THEN <<CurrentHook>> ELSE <<>>])

\* Mutant of Merge: only the first match is looked at.
MergeFirst(groups) ==
    IF Found(groups) = {} THEN Append(groups, <<CurrentHook>>)
    ELSE [i \in DOMAIN groups |->
             [j \in DOMAIN groups[i] |->
                IF IsOurs(groups[i][j]) /\ IsFirst(groups, <<i, j>>) THEN CurrentHook ELSE groups[i][j]]]

\* _merge_nudge_hook, _merge_server_hook.  Only the groups that the removal
\* has emptied go.
Merge(groups) ==
    IF Found(groups) = {} THEN Append(groups, <<CurrentHook>>)
    ELSE FlattenSeq([i \in DOMAIN groups |->
             IF Kept(groups, i) = <<>> /\ groups[i] # <<>> THEN <<>> ELSE <<Kept(groups, i)>>])

-----------------------------------------------------------------------------

TheirsIn(group) ==
    FlattenSeq([j \in DOMAIN group |-> IF IsOurs(group[j]) THEN <<>> ELSE <<group[j]>>])

TheirsOf(groups) == FlattenSeq([i \in DOMAIN groups |-> TheirsIn(groups[i])])

\* Whatever was there before, one entry of ours is there afterwards and it is
\* the current one, a second install has nothing to do, and the user's hooks
\* are the same in the same order; a group the user left empty is still there.
CleansUp(groups) ==
    LET merged == Merge(groups)
    IN  /\ IsCurrent(merged)
        /\ Merge(merged) = merged
        /\ TheirsOf(merged) = TheirsOf(groups)
        /\ Cardinality({i \in DOMAIN merged : merged[i] = <<>>})
             = Cardinality({i \in DOMAIN groups : groups[i] = <<>>})
=============================================================================
