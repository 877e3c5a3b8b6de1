SPECIFICATION KeyedSpec
CONSTANTS
    k1 = k1
    k2 = k2
    t1 = t1
    t2 = t2
    Keys = {k1, k2}
    Threads = {t1, t2}
    ServerOf <- TwoServers
    Nothing = Nothing
    Unreadable = Unreadable
    MaxEntries = 1
    MaxSpend = 1
    MaxFaults = 1
INVARIANT KeyedTypeOK
PROPERTY LossesAreOverlaps
PROPERTY EntriesComeBack
CHECK_DEADLOCK TRUE
