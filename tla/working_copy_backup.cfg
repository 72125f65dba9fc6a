SPECIFICATION PartSpec
CONSTANTS
    MaxFaults = 0
    SaveOptions <- AllSaves
    MaxCalls <- SaveCalls
INVARIANT ModifiedIsBackedUp
CHECK_DEADLOCK FALSE
