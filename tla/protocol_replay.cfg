SPECIFICATION Spec
CONSTANTS
    Data = {d1, d2}
    Controls = {ctl}
    NoData = none
    MaxMsgs <- TwoAndOne
    Calls = {}
    MaxSockets = 2
    MaxBuffered = 1
    MaxDrops = 1
    IdLimit = 16
SYMMETRY Symmetry
INVARIANTS
    DeliveryIsExact
PROPERTIES
    ImplementsReliableChannel
CHECK_DEADLOCK FALSE
