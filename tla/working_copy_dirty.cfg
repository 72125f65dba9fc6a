SPECIFICATION PartSpec
CONSTANTS
    MaxFaults = 1
    SaveOptions <- AllSaves
    MaxCalls <- SaveCalls
INVARIANT UnsavedIsDirty
CHECK_DEADLOCK FALSE
