SPECIFICATION Spec
CONSTANTS
    t1 = t1
    t2 = t2
    p1 = p1
    p2 = p2
    Threads = {t1, t2}
    Processes = {p1, p2}
    ProcessOf <- OneServer
    Inodes = {1, 2, 3, 4}
    None = None
    Empty = Empty
    Torn = Torn
    MaxReadings = 2
    MaxFailures = 1
    MaxCrashes = 1
INVARIANT RendersReadWholeEntries
