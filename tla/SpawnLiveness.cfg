SPECIFICATION FairSpec
CONSTANTS
    c1 = c1
    s1 = s1
    s2 = s2
    Clients = {c1}
    Servers = {s1, s2}
    NoInfo = NoInfo
    MaxVersion = 1
    MaxFaults = 1
    Aging = "abandoned"
PROPERTY AlwaysRecovers
PROPERTY SupersededServerEnds
