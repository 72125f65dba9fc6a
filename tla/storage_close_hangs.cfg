SPECIFICATION FairSpec
CONSTANTS
    Keys = {k1}
    Values = {v1}
    Missing = Missing
    NoRequest = NoRequest
    Calls = {"fail"}
    MaxChanges = 3
    MaxRestarts = 0
PROPERTIES
    CloseEnds
CHECK_DEADLOCK FALSE
