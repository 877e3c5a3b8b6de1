SPECIFICATION Spec
CONSTANTS
    s = s
    main = main
    resumed = resumed
    agent = agent
    Sessions = {s}
    Parents = {main, resumed}
    SubagentsOf <- MCSubagentsOf
    Lines <- MCLines
    Ttl = 3
    NoEntry = NoEntry
    NoRead = NoRead
    MaxAppends = 4
    MaxRewrites = 1
    MaxSwitches = 1
INVARIANT TypeOK
INVARIANT TotalsMatchFullWalk
INVARIANT ParentShareMatchesFullWalk
INVARIANT RewalksAreEarned
