SPECIFICATION Spec
CONSTANTS
    s1 = s1
    s2 = s2
    Servers = {s1, s2}
    c1 = c1
    c2 = c2
    Commits = {c1, c2}
    None = None
    Blank = Blank
    MaxAge = 2
    MaxEvents = 2
INVARIANT TypeOK
INVARIANT FingerprintVouches
PROPERTY CountersCatchUp
PROPERTY RefCatchesUp
