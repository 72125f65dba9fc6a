SPECIFICATION FairSpec
CONSTANTS
    Keys = {k1, k2}
    Values = {v1}
    Missing = Missing
    NoRequest = NoRequest
    Calls = {"fail", "optimize", "flush"}
    MaxChanges = 3
    MaxRestarts = 1
INVARIANTS
    NothingLost
    FlushCovers
    ClosedIsPersisted
PROPERTIES
    ImplementsDurableMap
    SettlesIfHealthy
CHECK_DEADLOCK FALSE
