SPECIFICATION FairSpec
CONSTANTS
    Data = {d1}
    Controls = {ctl}
    NoData = none
    MaxMsgs <- OneAndOne
    Calls = {"timeout"}
    MaxSockets = 3
    MaxBuffered = 1
    MaxDrops = 0
    IdLimit = 16
INVARIANTS
    EverythingIsUnderWay
    TimersAreArmed
PROPERTIES
    EventuallyDelivered
CHECK_DEADLOCK FALSE
