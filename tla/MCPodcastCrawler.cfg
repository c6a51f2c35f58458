SPECIFICATION Spec
CONSTANTS
    Podcasts <- MCPodcasts
    NumConnections = 2
    PageSize = 2
    Capacity = 1
    Short = 2
    Long = 3
    Jitter = 1
    ContentLimit = 1
    MaxContents = 2
    MaxChanges = 1
    MaxFaults = 1
INVARIANTS
    EveryPromiseSent
    RowsHandled
    PoolSuffices
PROPERTIES
    SentFromOnePage
    ContentKept
    OverdueIsRetrieved
CHECK_DEADLOCK FALSE
