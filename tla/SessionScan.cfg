SPECIFICATION Spec
CONSTANTS
    p1 = p1
    p2 = p2
    p3 = p3
    Pids = {p1, p2, p3}
    Host = Host
    None = None
    Images <- Kinds
    WalkLimit = 2
    MaxBirths = 4
INVARIANT TypeOK
INVARIANT SessionsAreCounted
INVARIANT HelpersAreNotCounted
INVARIANT OrphansAreNotCounted
SYMMETRY Symmetry
