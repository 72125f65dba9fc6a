SPECIFICATION FairSpec
CONSTANTS
    Management = {m}
    ExtensionHosts = {}
    Calls = {"grace"}
    MaxSockets = 2
    MAX_ATTEMPTS = 2
    MaxRetries = 2
PROPERTIES InitialConnectionEnds
CHECK_DEADLOCK FALSE
