SPECIFICATION Inputs
CONSTANTS
    Dwell = 2
    Gap = 3
    MaxAge = 5
    Earliest = 2
    HourLength = 2
    Hours = 2
    CurrentHook = "ours"
    Leftovers = {"old", "older"}
    Theirs = {"mine", "yours"}
    Directories <- MCDirectories
    Times <- MCTimes
    Counts <- MCCounts
    BeaconLists <- MCBeaconLists
    FileCount = 2
    TurnLines <- MCTurnLines
    MaxLength <- MCMaxLength
INVARIANT DebounceMatchesEpisodes
INVARIANT AnchorsMatchLifecycle
INVARIANT EachTurnIsChargedOnce
INVARIANT HoursAreFilled
INVARIANT MergeIsClean
CHECK_DEADLOCK FALSE
