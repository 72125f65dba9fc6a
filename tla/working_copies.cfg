SPECIFICATION PartSpec
CONSTANTS
    MaxFaults = 1
    SaveOptions <- AllSaves
    MaxCalls <- SaveCalls
INVARIANTS
    OneWriteAtATime
    NoSaveForgotten
    ErrorIsDirty
    BackupFollowsCopy
PROPERTIES
    UnsavedSurvives
    
    ClosesBackedUp
    UnopenedSurvives
CHECK_DEADLOCK FALSE
