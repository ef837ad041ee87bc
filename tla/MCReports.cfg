SPECIFICATION FairSpec
CONSTANTS
    null = null
    Null = null
    Hour = 1
    Day = 4
    Week = 8
    MonthLen = 8
    WindowHours = 3
    TierFloors <- MCTierFloors
    MaxClients = 2
    MaxRelays = 1
    MaxNodes = 2
    MaxMsats = 5000
    Hash <- MCHash
    Scenarios <- MCScenarios
    Watched <- MCWatched
    Resettable = {"follow_graph", "new_users", "pagerank", "all"}
    RefreshEvery = 2
    Buffer = 1
    Now = 5
    Due = {TRUE}
    Persist = {TRUE, FALSE}
CHECK_DEADLOCK FALSE
INVARIANTS
    TalliesMatchStores
    PatchCompletesReport
PROPERTY BrowserCatchesUp
