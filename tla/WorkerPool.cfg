SPECIFICATION FairSpec
CONSTANTS
    w1 = w1
    w2 = w2
    c1 = c1
    c2 = c2
    k1 = k1
    k2 = k2
    k3 = k3
    Workers = {w1, w2}
    Callers = {c1, c2}
    Keys = {k1, k2, k3}
    Shutdown = Shutdown
    NoKey = NoKey
INVARIANT TypeOK
INVARIANT ClaimsAreExact
INVARIANT CountersAreExact
PROPERTY AcceptedJobsRun
PROPERTY ImplementsSingleFlight
CHECK_DEADLOCK FALSE
