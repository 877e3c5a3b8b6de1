SPECIFICATION Spec
CONSTANTS
    c1 = c1
    c2 = c2
    s1 = s1
    s2 = s2
    Clients = {c1, c2}
    Servers = {s1, s2}
    NoInfo = NoInfo
    MaxVersion = 1
    MaxFaults = 1
    Aging = "never"
SYMMETRY Symmetry
INVARIANT TypeOK
INVARIANT AtMostOneSpawn
INVARIANT NoPileUp
INVARIANT CleanExitUnpublishes
