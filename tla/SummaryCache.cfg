SPECIFICATION FairSpec
CONSTANTS
    k1 = k1
    k2 = k2
    Keys = {k1, k2}
    Walks = {k1}
    NoKey = NoKey
    NoEntry = NoEntry
    MaxEntries = 1
    MaxVersion = 2
    MaxFailures = 1
INVARIANT TypeOK
INVARIANT TableBounded
INVARIANT SignatureVouches
PROPERTY FreshAgainAndAgain
