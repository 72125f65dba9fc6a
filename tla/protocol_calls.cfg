SPECIFICATION Spec
CONSTANTS
    Data = {d1}
    Controls = {ctl}
    NoData = none
    MaxMsgs <- OneAndNone
    Calls = {"pause", "debugPause", "flush", "keepAlive", "control", "disconnect", "dispose"}
    MaxSockets = 2
    MaxBuffered = 1
    MaxDrops = 0
    IdLimit = 16
CONSTRAINT OneConcern
INVARIANTS
    FlowGoesOn
    DisconnectComesLast
CHECK_DEADLOCK FALSE
