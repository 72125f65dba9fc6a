SPECIFICATION FairSpec
CONSTANTS
    Management = {}
    ExtensionHosts = {e}
    Calls = {"grace", "dispose", "error"}
    MaxSockets = 4
    MAX_ATTEMPTS = 1
    MaxRetries = 2
PROPERTIES EventuallySettled ServerForgets
CHECK_DEADLOCK FALSE
