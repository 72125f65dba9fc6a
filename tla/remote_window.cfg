SPECIFICATION Spec
CONSTANTS
    Management = {m}
    ExtensionHosts = {e}
    Calls = {"timeout", "end", "grace", "dispose"}
    MaxSockets = 4
    SharedSockets = 3
    MAX_ATTEMPTS = 2
    MaxRetries = 1
CONSTRAINT SharedWindow
INVARIANTS ReportsAreTrue LossesAreNoticed
PROPERTIES NoAttemptsAfterEnd
CHECK_DEADLOCK FALSE
