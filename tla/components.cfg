SPECIFICATION PartSpec
CONSTANTS
    LimiterDegree = 2
    LimiterTasks = 5
    Resources = {r1, r2}
    QueueTasks = 4
    MaxWaiters = 2
    maxWorkChunkSize = 2
    maxBufferedWork = 3
    MaxUnits = 9
    IpcCalls = {c1}
    IpcEvents = {e1}
    MaxListens = 2
    MaxRegisters = 2
    MaxSockets = 3
    MaxReduce = 2
    Windows = {w1, w2}
    Keys = {k1}
    Values = {v1}
    Missing = Missing
    MaxChanges = 3
    MaxOpens = 3
    Items = {i1, i2}
    MaxSessions = 4
    MaxFaults = 2
    HeaderLength = 3
    MaxBody = 2
    MaxMessages = 5
INVARIANTS
    OrderAndLimits
    DoneMeansDone
    ServedExactly
    HostFollowsClient
    DivergenceIsUnderWay
    SurvivesOneFault
    LoopsAreRemoved
    DependenciesFirst
    FramingIsExact
PROPERTIES
    RestsBetweenChunks
    EverythingEnds
    CallsSettle
    ExtensionHostSettles
    EventuallyAgree
    EventsEnd
CHECK_DEADLOCK FALSE
